---- MODULE Spec2Model ----
(***************************************************************************)
(* State-machine model of the TASM TriCore assembler and linker            *)
(* (src/src/assembler.py, instruction_loader.py, instruction_encoder.py,   *)
(* linker.py, TASM.py).                                                    *)
(*                                                                         *)
(* Representation choices                                                  *)
(*  - An address is kept as its byte offset from the assembler's default   *)
(*    origin 0x80000000 (assembler.py:103), because 2^31 is not a TLC      *)
(*    integer.  The real address is 0x80000000 + offset; its high 16 bits  *)
(*    are OriginHigh + offset \div 65536 and its low 16 bits are           *)
(*    offset % 65536.                                                      *)
(*  - An encoded word is the record [hi, lo] of its two 16-bit halves,     *)
(*    because a 32-bit word with bit 31 set is not a TLC integer.          *)
(*  - An operand is a record: a register (type letter and number), a       *)
(*    label reference (name) or a numeric constant.                        *)
(***************************************************************************)
EXTENDS Integers, Sequences, FiniteSets, TLC

\* ------------------------------------------------------------------------
\* Integer and word arithmetic
\* ------------------------------------------------------------------------

Half == 65536

Min2(a, b) == IF a < b THEN a ELSE b

RECURSIVE BitOr(_, _)
\* python's a | b for non-negative integers
BitOr(a, b) ==
  IF a = 0 THEN b
  ELSE IF b = 0 THEN a
  ELSE (IF a % 2 = 1 \/ b % 2 = 1 THEN 1 ELSE 0) + 2 * BitOr(a \div 2, b \div 2)

\* python's (v & ((1 << len) - 1)) for any integer v (two's complement)
MaskBits(v, len) == v % (2 ^ len)

\* python's (v >> n) for any integer v (floor division)
ShiftRight(v, n) == v \div (2 ^ n)

\* the 32-bit word holding the non-negative integer n < 2^31
WordOfNat(n) == [hi |-> (n \div Half) % Half, lo |-> n % Half]

\* python's (v << pos) kept to 32 bits, for 0 <= v < 2^16 * 2^15
ShiftLeft(v, pos) ==
  LET vlo == v % Half
      vhi == (v \div Half) % Half
  IN IF pos >= 16
     THEN [hi |-> (vlo * (2 ^ (pos - 16))) % Half, lo |-> 0]
     ELSE [hi |-> ((vhi * (2 ^ pos)) + ((vlo * (2 ^ pos)) \div Half)) % Half,
           lo |-> (vlo * (2 ^ pos)) % Half]

WordOr(a, b) == [hi |-> BitOr(a.hi, b.hi), lo |-> BitOr(a.lo, b.lo)]

\* (word >> (8 * k)) & 0xFF for k in 0..3
WordByte(w, k) ==
  IF k = 0 THEN w.lo % 256
  ELSE IF k = 1 THEN w.lo \div 256
  ELSE IF k = 2 THEN w.hi % 256
  ELSE w.hi \div 256

\* ------------------------------------------------------------------------
\* Operands and parsed instructions
\* ------------------------------------------------------------------------

Reg(t, n) == [kind |-> "reg", rtype |-> t, num |-> n, name |-> ""]
Lbl(s)    == [kind |-> "label", rtype |-> "", num |-> 0, name |-> s]
Num(n)    == [kind |-> "num", rtype |-> "", num |-> n, name |-> ""]

Ins(m, ops) == [mnemonic |-> m, operands |-> ops]

\* syntax operand patterns of a table row
SynReg(t, n)   == [reg |-> t, specific |-> n, width |-> 0, scale |-> 1, off |-> FALSE]
SynImm(w, sc)  == [reg |-> "", specific |-> -1, width |-> w, scale |-> sc, off |-> FALSE]
\* an immediate slot named off<w>, with "/sc" behind it when sc > 1
SynOff(w, sc)  == [reg |-> "", specific |-> -1, width |-> w, scale |-> sc, off |-> TRUE]

None == [none |-> TRUE]

\* ------------------------------------------------------------------------
\* Instruction table (rows of the instruction-set file, in file order)
\* ------------------------------------------------------------------------

InstructionTable ==
  << [instruction |-> "NOP", syntax |-> "NOP", pattern |-> << >>,
      split_pos |-> 0, split |-> << >>,
      opcode |-> 0, opcode_size |-> 16, operand_count |-> 0, ops |-> << >>],
     [instruction |-> "J", syntax |-> "J disp8/2", pattern |-> << SynImm(8, 2) >>,
      split_pos |-> 0, split |-> << >>,
      opcode |-> 60, opcode_size |-> 16, operand_count |-> 1,
      ops |-> << <<8, 8>> >>],
     [instruction |-> "J", syntax |-> "J disp24 {[15:0],[23:16]}",
      pattern |-> << SynImm(24, 1) >>,
      split_pos |-> 1, split |-> << <<15, 0>>, <<23, 16>> >>,
      opcode |-> 29, opcode_size |-> 32, operand_count |-> 1,
      ops |-> << <<16, 16>>, <<8, 8>> >>],
     [instruction |-> "LOOP", syntax |-> "LOOP A[b], disp4/2",
      pattern |-> << SynReg("A", -1), SynImm(4, 2) >>,
      split_pos |-> 0, split |-> << >>,
      opcode |-> 252, opcode_size |-> 16, operand_count |-> 2,
      ops |-> << <<12, 4>>, <<8, 4>> >>],
     [instruction |-> "LOOP", syntax |-> "LOOP A[b], disp15/2",
      pattern |-> << SynReg("A", -1), SynImm(15, 2) >>,
      split_pos |-> 0, split |-> << >>,
      opcode |-> 253, opcode_size |-> 32, operand_count |-> 2,
      ops |-> << <<12, 4>>, <<16, 15>> >> ],
     [instruction |-> "MOV", syntax |-> "MOV D[a], const4",
      pattern |-> << SynReg("D", -1), SynImm(4, 1) >>,
      split_pos |-> 0, split |-> << >>,
      opcode |-> 130, opcode_size |-> 16, operand_count |-> 2,
      ops |-> << <<8, 4>>, <<12, 4>> >> ],
     [instruction |-> "MOV", syntax |-> "MOV D[c], const16",
      pattern |-> << SynReg("D", -1), SynImm(16, 1) >>,
      split_pos |-> 0, split |-> << >>,
      opcode |-> 59, opcode_size |-> 32, operand_count |-> 2,
      ops |-> << <<28, 4>>, <<12, 16>> >> ],
     [instruction |-> "JNZ", syntax |-> "JNZ D[15], disp8",
      pattern |-> << SynReg("D", 15), SynImm(8, 1) >>,
      split_pos |-> 0, split |-> << >>,
      opcode |-> 238, opcode_size |-> 16, operand_count |-> 2,
      ops |-> << <<0, 0>>, <<8, 8>> >> ],
     [instruction |-> "JNZ", syntax |-> "JNZ D[b], disp4",
      pattern |-> << SynReg("D", -1), SynImm(4, 1) >>,
      split_pos |-> 0, split |-> << >>,
      opcode |-> 246, opcode_size |-> 16, operand_count |-> 2,
      ops |-> << <<12, 4>>, <<8, 4>> >> ],
     [instruction |-> "LD.BU", syntax |-> "LD.BU D[c], A[15], off4",
      pattern |-> << SynReg("D", -1), SynReg("A", 15), SynOff(4, 1) >>,
      split_pos |-> 0, split |-> << >>,
      opcode |-> 8, opcode_size |-> 16, operand_count |-> 3,
      ops |-> << <<8, 4>>, <<0, 0>>, <<12, 4>> >> ],
     [instruction |-> "LD.BU", syntax |-> "LD.BU D[a], A[b], off16",
      pattern |-> << SynReg("D", -1), SynReg("A", -1), SynOff(16, 1) >>,
      split_pos |-> 0, split |-> << >>,
      opcode |-> 57, opcode_size |-> 32, operand_count |-> 3,
      ops |-> << <<8, 4>>, <<12, 4>>, <<16, 16>> >> ],
     [instruction |-> "LD.W", syntax |-> "LD.W D[c], A[15], off4/4",
      pattern |-> << SynReg("D", -1), SynReg("A", 15), SynOff(4, 4) >>,
      split_pos |-> 0, split |-> << >>,
      opcode |-> 72, opcode_size |-> 16, operand_count |-> 3,
      ops |-> << <<8, 4>>, <<0, 0>>, <<12, 4>> >> ],
     [instruction |-> "LD.W", syntax |-> "LD.W D[a], A[b], off16",
      pattern |-> << SynReg("D", -1), SynReg("A", -1), SynOff(16, 1) >>,
      split_pos |-> 0, split |-> << >>,
      opcode |-> 25, opcode_size |-> 32, operand_count |-> 3,
      ops |-> << <<8, 4>>, <<12, 4>>, <<16, 16>> >> ],
     [instruction |-> "LEA", syntax |-> "LEA A[a], A[b], off10 {[9:6][5:0]}",
      pattern |-> << SynReg("A", -1), SynReg("A", -1), SynOff(10, 1) >>,
      split_pos |-> 3, split |-> << <<9, 6>>, <<5, 0>> >>,
      opcode |-> 167772233, opcode_size |-> 32, operand_count |-> 3,
      ops |-> << <<8, 4>>, <<12, 4>>, <<28, 4>>, <<16, 6>> >> ],
     [instruction |-> "LEA", syntax |-> "LEA A[a], A[b], off16 {[9:6][15:10][5:0]}",
      pattern |-> << SynReg("A", -1), SynReg("A", -1), SynOff(16, 1) >>,
      split_pos |-> 3, split |-> << <<9, 6>>, <<15, 10>>, <<5, 0>> >>,
      opcode |-> 217, opcode_size |-> 32, operand_count |-> 3,
      ops |-> << <<8, 4>>, <<12, 4>>, <<28, 4>>, <<22, 6>>, <<16, 6>> >> ] >>

\* InstructionSetLoader.get_instruction_variants
get_instruction_variants(mnemonic) ==
  SelectSeq(InstructionTable, LAMBDA r : r.instruction = mnemonic)

\* InstructionDefinition.get_operand_info (1-based, (0, 0) when absent)
get_operand_info(def, n) ==
  IF n >= 1 /\ n <= Len(def.ops) THEN def.ops[n] ELSE <<0, 0>>

\* InstructionDefinition.get_operand_bit_width
get_operand_bit_width(def, n) ==
  IF n <= Len(def.pattern) /\ def.pattern[n].width > 0
  THEN def.pattern[n].width
  ELSE get_operand_info(def, n)[2]

\* InstructionDefinition._parse_syntax_operand_types
syntax_operand_types(def) ==
  [i \in 1..Len(def.pattern) |->
     IF def.pattern[i].reg # "" THEN def.pattern[i].reg ELSE "imm"]

\* InstructionEncoder._classify_operand_type
classify_operand_type(op) == IF op.kind = "reg" THEN op.rtype ELSE "imm"

\* first of the rows with the least opcode_size (python's stable sort, [0])
RECURSIVE SmallestFrom(_, _, _)
SmallestFrom(vs, i, best) ==
  IF i > Len(vs) THEN best
  ELSE SmallestFrom(vs, i + 1,
         IF vs[i].opcode_size < best.opcode_size THEN vs[i] ELSE best)

Smallest(vs) == SmallestFrom(vs, 2, vs[1])

\* first of the rows with the greatest opcode_size (stable sort, reverse)
RECURSIVE LargestFrom(_, _, _)
LargestFrom(vs, i, best) ==
  IF i > Len(vs) THEN best
  ELSE LargestFrom(vs, i + 1,
         IF vs[i].opcode_size > best.opcode_size THEN vs[i] ELSE best)

Largest(vs) == LargestFrom(vs, 2, vs[1])

\* value fits an n-bit field as signed or as unsigned
FitsField(value, n) ==
  \/ (-(2 ^ (n - 1)) <= value /\ value <= (2 ^ (n - 1)) - 1)
  \/ (0 <= value /\ value <= (2 ^ n) - 1)

\* ------------------------------------------------------------------------
\* Variant selection (instruction_loader.py)
\* ------------------------------------------------------------------------

\* An operand the loader takes for a register: its text starts with one of
\* a, d, e, p.  The label names used here (foo, bar, qux) do not.
IsRegisterText(op) == op.kind = "reg"

\* InstructionSetLoader._is_specific_register_syntax, first component
is_specific_register_syntax(syn) == syn.reg # "" /\ syn.specific >= 0

\* InstructionSetLoader._operand_matches_syntax_register
operand_matches_syntax_register(op, syn) ==
  IF op.kind # "reg" THEN TRUE
  ELSE IF syn.reg = "" THEN TRUE
  ELSE IF op.rtype # syn.reg THEN FALSE
  ELSE IF syn.specific >= 0 THEN op.num = syn.specific
  ELSE TRUE

\* operand_values of _find_best_variant_by_operand_range: None for a
\* register or a label, the number for a numeric constant
OperandIsValueless(op) == op.kind # "num"

\* mnemonics whose offsets count words
word_aligned_mnemonics == {"LD.W", "ST.W", "LD.A", "LEA"}

\* lines 1157-1174: the divisor of operand i in the range check: /4 or /2
\* of the syntax, else 4 for an off slot of a word-aligned mnemonic
range_scale(variant, i) ==
  IF i > Len(variant.pattern) THEN 1
  ELSE IF variant.pattern[i].scale = 4 THEN 4
  ELSE IF variant.pattern[i].scale = 2 THEN 2
  ELSE IF variant.pattern[i].off /\ variant.instruction \in word_aligned_mnemonics THEN 4
  ELSE 1

\* can_fit of _find_best_variant_by_operand_range
RangeCanFit(variant, operands) ==
  \A i \in 1..Len(operands) :
    IF OperandIsValueless(operands[i])
    THEN (i <= Len(variant.pattern) /\ IsRegisterText(operands[i]))
            => operand_matches_syntax_register(operands[i], variant.pattern[i])
    ELSE LET op_len == get_operand_bit_width(variant, i)
             sc     == range_scale(variant, i)
             value  == operands[i].num \div sc
         IN op_len = 0 \/ FitsField(value, op_len)

\* calculate_non_specific_matches of _find_best_variant_by_operand_range
calculate_non_specific_matches(variant, operands) ==
  Cardinality({ i \in 1..Min2(Len(variant.pattern), Len(operands)) :
                  /\ ~is_specific_register_syntax(variant.pattern[i])
                  /\ operands[i].kind = "reg" })

\* the element python's stable sort puts first under the key
\* (non_specific_matches, -opcode_size) or (non_specific_matches, opcode_size)
RECURSIVE BestByKeyFrom(_, _, _, _, _)
BestByKeyFrom(vs, operands, larger, i, best) ==
  IF i > Len(vs) THEN best
  ELSE LET kb == calculate_non_specific_matches(best, operands)
           ki == calculate_non_specific_matches(vs[i], operands)
           before == \/ ki < kb
                     \/ /\ ki = kb
                        /\ IF larger THEN vs[i].opcode_size > best.opcode_size
                                     ELSE vs[i].opcode_size < best.opcode_size
       IN BestByKeyFrom(vs, operands, larger, i + 1, IF before THEN vs[i] ELSE best)

\* InstructionSetLoader._find_best_variant_by_operand_range
best_suitable_variant(suitable_variants, operands, has_labels) ==
  IF Len(suitable_variants) = 0 THEN None
  ELSE BestByKeyFrom(suitable_variants, operands, has_labels, 2, suitable_variants[1])

find_best_variant_by_operand_range(variants, operands) ==
  best_suitable_variant(SelectSeq(variants, LAMBDA v : RangeCanFit(v, operands)),
                        operands,
                        \E i \in 1..Len(operands) : OperandIsValueless(operands[i]))

\* "if operands:" - neither None nor an empty list (a caller that passes no
\* operands passes the empty sequence here)
OperandsGiven(operands) == Len(operands) > 0

\* the filter by operand types alone
TypeMatched_by_type_only(variant, operands) ==
  /\ Len(variant.pattern) = Len(operands)
  /\ \A i \in 1..Len(operands) :
       syntax_operand_types(variant)[i] = classify_operand_type(operands[i])

\* type and specific-register filter of find_instruction (lines 593-645)
TypeMatched(variant, operands) ==
  /\ Len(variant.pattern) = Len(operands)
  /\ \A i \in 1..Len(operands) :
       syntax_operand_types(variant)[i] = classify_operand_type(operands[i])
  /\ \A i \in 1..Len(operands) :
       (is_specific_register_syntax(variant.pattern[i]) /\ operands[i].kind = "reg")
          => (operands[i].rtype = variant.pattern[i].reg
              /\ operands[i].num = variant.pattern[i].specific)

\* find_instruction, "if best_match: return best_match", else the largest
best_match_or_largest(best_match, typed) ==
  IF best_match # None THEN best_match ELSE Largest(typed)

\* find_instruction once the variants are filtered by operand count
\* (by_count), by force_32bit (forced) and by operand types (typed)
find_among(mnemonic, operands, by_count, forced, typed) ==
  IF /\ mnemonic = "LOOP"
     /\ OperandsGiven(operands)
     /\ \E i \in 1..Len(operands) : operands[i].kind # "reg"
     /\ Len(by_count) > 1
  THEN Largest(by_count)
  ELSE IF Len(by_count) = 0 THEN None
  ELSE IF Len(forced) = 0 THEN None
  ELSE IF Len(forced) = 1 THEN forced[1]
  ELSE IF Len(typed) > 1
       THEN best_match_or_largest(find_best_variant_by_operand_range(typed, operands), typed)
  ELSE IF Len(typed) = 1 THEN typed[1]
  ELSE Smallest(forced)

\* the force_32bit filter of find_instruction
forced_variants(by_count, force_32bit) ==
  IF force_32bit THEN SelectSeq(by_count, LAMBDA v : v.opcode_size >= 32) ELSE by_count

\* the operand type filter of find_instruction
typed_variants(forced, operands) ==
  IF OperandsGiven(operands)
  THEN SelectSeq(forced, LAMBDA v : TypeMatched(v, operands))
  ELSE << >>

\* 'a[10]', 'a[15]', 'a10' or 'a15' in the syntax of the row
references_implicit(variant) ==
  \E i \in 1..Len(variant.pattern) :
    variant.pattern[i].reg = "A" /\ variant.pattern[i].specific \in {10, 15}

\* the no_implicit filter of find_instruction
explicit_variants(forced, no_implicit) ==
  IF no_implicit THEN SelectSeq(forced, LAMBDA v : ~references_implicit(v)) ELSE forced

find_forced(mnemonic, operands, by_count, forced) ==
  find_among(mnemonic, operands, by_count, forced, typed_variants(forced, operands))

find_by_count(mnemonic, operands, by_count, force_32bit, no_implicit) ==
  find_forced(mnemonic, operands, by_count,
              explicit_variants(forced_variants(by_count, force_32bit), no_implicit))

\* InstructionSetLoader.find_instruction of a loader built with the options
\* force_32bit and no_implicit
find_instruction(mnemonic, operand_count, operands, force_32bit, no_implicit) ==
  find_by_count(mnemonic, operands,
                SelectSeq(get_instruction_variants(mnemonic),
                          LAMBDA v : v.operand_count = operand_count),
                force_32bit, no_implicit)

\* ------------------------------------------------------------------------
\* Encoding (instruction_encoder.py)
\* ------------------------------------------------------------------------

PLACEHOLDER == 254

\* InstructionEncoder.parse_operand_value with a current address: a register
\* gives its number, a known label its byte displacement from the current
\* instruction, an unknown identifier the placeholder
parse_operand_value(op, current_address, labels) ==
  IF op.kind = "reg" THEN op.num
  ELSE IF op.kind = "num" THEN op.num
  ELSE IF op.name \in DOMAIN labels THEN labels[op.name] - current_address
  ELSE PLACEHOLDER

\* result of a failed encoding: n diagnostics of level ERROR or ABORT logged
EncodeFailed(n) ==
  [ok |-> FALSE, definition |-> None, binary_value |-> WordOfNat(0), size |-> 0,
   errors |-> n]

\* the EncodedInstruction returned: the definition used, the encoded word and
\* size_bytes = definition.opcode_size // 8
EncodeOk(def, w) ==
  [ok |-> TRUE, definition |-> def, binary_value |-> w, size |-> def.opcode_size \div 8,
   errors |-> 0]

\* sum of the widths of the source windows of a split operand
RECURSIVE TotalBits(_, _)
TotalBits(split, k) ==
  IF k > Len(split) THEN 0
  ELSE (split[k][1] - split[k][2] + 1) + TotalBits(split, k + 1)

\* every window taken from the low end of the value, without the shift by
\* its low bit
RECURSIVE OrSplitParts_unshifted(_, _, _, _, _)
OrSplitParts_unshifted(def, value, first_slot, k, bin) ==
  IF k > Len(def.split) THEN bin
  ELSE LET high == def.split[k][1]
           low  == def.split[k][2]
           part_value == MaskBits(value, high - low + 1)
           info == get_operand_info(def, first_slot + k - 1)
       IN OrSplitParts_unshifted(def, value, first_slot, k + 1,
            WordOr(bin, ShiftLeft(MaskBits(part_value, info[2]), info[1])))

\* lines 631-642: every window [high:low] of the value goes to its slot
RECURSIVE OrSplitParts(_, _, _, _, _)
OrSplitParts(def, value, first_slot, k, bin) ==
  IF k > Len(def.split) THEN bin
  ELSE LET high == def.split[k][1]
           low  == def.split[k][2]
           part_value == MaskBits(ShiftRight(value, low), high - low + 1)
           info == get_operand_info(def, first_slot + k - 1)
       IN OrSplitParts(def, value, first_slot, k + 1,
            WordOr(bin, ShiftLeft(MaskBits(part_value, info[2]), info[1])))

\* lines 581-585: the divisor of the split operand, the /2 of the syntax only
split_scale(def, i) ==
  IF i <= Len(def.pattern) /\ def.pattern[i].scale = 2 THEN 2 ELSE 1

\* InstructionEncoder._encode_split_operand_instruction, from parsed operand
\* parsed_idx on, with instr_def_operand_num the next slot of the definition
RECURSIVE encode_split_from(_, _, _, _, _, _, _)
encode_split_from(parsed, def, current_address, labels, parsed_idx, instr_def_operand_num, bin) ==
  IF parsed_idx > Len(parsed.operands)
  THEN EncodeOk(def, bin)
  ELSE
    LET raw == parse_operand_value(parsed.operands[parsed_idx], current_address, labels)
    IN IF parsed_idx = def.split_pos
       THEN LET value == raw \div split_scale(def, parsed_idx)
                max_value == (2 ^ TotalBits(def.split, 1)) - 1
            IN IF value > max_value
               THEN EncodeFailed(3)
               ELSE encode_split_from(parsed, def, current_address, labels,
                      parsed_idx + 1, instr_def_operand_num + Len(def.split),
                      OrSplitParts(def, value, instr_def_operand_num, 1, bin))
       ELSE LET info == get_operand_info(def, instr_def_operand_num)
                mask == (2 ^ info[2]) - 1
            IN IF info[2] > 0 /\ raw > mask
               THEN EncodeFailed(3)
               ELSE encode_split_from(parsed, def, current_address, labels,
                      parsed_idx + 1, instr_def_operand_num + 1,
                      IF info[2] > 0
                      THEN WordOr(bin, ShiftLeft(MaskBits(raw, info[2]), info[1]))
                      ELSE bin)

optimize_mnemonics ==
  {"J", "LOOP", "JNZ", "JEQ", "JNE", "JGE", "JL", "JLT", "JGEU", "JLTU",
   "CALL", "MOV", "MOV.AA", "ADD", "SUB"}

\* lines 870-937: register kind, type and number compatibility
VariantCompatible(variant, operands) ==
  \A i \in 1..Min2(Len(variant.pattern), Len(operands)) :
    LET syntax_reg == variant.pattern[i].reg # ""
        actual_reg == operands[i].kind = "reg"
    IN /\ (syntax_reg /\ actual_reg) =>
            /\ operands[i].rtype = variant.pattern[i].reg
            /\ (variant.pattern[i].specific >= 0
                  => operands[i].num = variant.pattern[i].specific)
       /\ ~(~syntax_reg /\ actual_reg)
       /\ ~(syntax_reg /\ ~actual_reg)

\* lines 945-975: the already scaled values fit the variant's slots
VariantCanFit(variant, operands, values) ==
  \A i \in 1..Len(values) :
    \/ operands[i].kind = "reg"
    \/ get_operand_info(variant, i)[2] = 0
    \/ FitsField(values[i], get_operand_info(variant, i)[2])

\* lines 1016-1060: range check and placement of every operand value
RECURSIVE encode_operands_from(_, _, _, _)
encode_operands_from(def, values, i, bin) ==
  IF i > Len(values) THEN EncodeOk(def, bin)
  ELSE LET info == get_operand_info(def, i)
           op_len == info[2]
           op_mask == (2 ^ op_len) - 1
       IN IF op_len = 0 THEN encode_operands_from(def, values, i + 1, bin)
          ELSE IF values[i] < 0 /\ values[i] < -(2 ^ (op_len - 1)) THEN EncodeFailed(2)
          ELSE IF values[i] >= 0 /\ values[i] > op_mask THEN EncodeFailed(2)
          ELSE encode_operands_from(def, values, i + 1,
                 WordOr(bin, ShiftLeft(MaskBits(values[i], op_len), info[1])))

\* lines 827-839: the divisor of operand i in encode_instruction: /4 or /2
\* of the syntax, else 4 for an off slot of a word-aligned mnemonic
encoding_scale(definition, i) ==
  IF i > Len(definition.pattern) THEN 1
  ELSE IF definition.pattern[i].scale = 4 THEN 4
  ELSE IF definition.pattern[i].scale = 2 THEN 2
  ELSE IF definition.pattern[i].off /\ definition.instruction \in word_aligned_mnemonics
  THEN 4
  ELSE 1

\* the operand values of encode_instruction, each divided by the scale of
\* its syntax slot
scaled_values(operands, definition, current_address, labels) ==
  [i \in 1..Len(operands) |->
     parse_operand_value(operands[i], current_address, labels)
       \div encoding_scale(definition, i)]

\* lines 840-1000: for a mnemonic that is optimized, the smallest variant
\* whose slots hold the values replaces the definition found
optimized_variant(mnemonic, definition, all_variants, suitable_variants) ==
  IF /\ Len(all_variants) > 1
     /\ mnemonic \in optimize_mnemonics
     /\ Len(suitable_variants) > 0
     /\ Smallest(suitable_variants).opcode # definition.opcode
  THEN Smallest(suitable_variants)
  ELSE definition

encode_chosen(chosen, values) ==
  encode_operands_from(chosen, values, 1, WordOfNat(chosen.opcode))

\* encode_instruction for a definition without a split operand
encode_plain(parsed, definition, values) ==
  encode_chosen(
    optimized_variant(parsed.mnemonic, definition,
      get_instruction_variants(parsed.mnemonic),
      SelectSeq(get_instruction_variants(parsed.mnemonic),
        LAMBDA v : /\ v.operand_count = Len(parsed.operands)
                   /\ VariantCompatible(v, parsed.operands)
                   /\ VariantCanFit(v, parsed.operands, values))),
    values)

\* encode_instruction once find_instruction has answered
encode_definition(parsed, definition, current_address, labels) ==
  IF definition = None THEN EncodeFailed(2)
  ELSE IF Len(definition.split) > 0
  THEN encode_split_from(parsed, definition, current_address, labels, 1, 1,
                         WordOfNat(definition.opcode))
  ELSE encode_plain(parsed, definition,
                    scaled_values(parsed.operands, definition, current_address, labels))

\* InstructionEncoder.encode_instruction
encode_instruction(parsed, current_address, labels, force_32bit, no_implicit) ==
  encode_definition(parsed,
    find_instruction(parsed.mnemonic, Len(parsed.operands), parsed.operands,
                     force_32bit, no_implicit),
    current_address, labels)

\* ------------------------------------------------------------------------
\* Source lines
\* ------------------------------------------------------------------------

NoIns == Ins("", << >>)

\* "label: instruction" or "instruction" (label = "" when there is none)
InsLine(l, ins) == [kind |-> "ins", label |-> l, ins |-> ins, org |-> 0]
\* "label:"
LabelLine(l) == [kind |-> "label", label |-> l, ins |-> NoIns, org |-> 0]
\* ".ORG 0x80000000 + x"
OrgLine(x) == [kind |-> "org", label |-> "", ins |-> NoIns, org |-> x]

\* ------------------------------------------------------------------------
\* Two-pass assembler (assembler.py)
\* ------------------------------------------------------------------------

\* AssemblerEngine.__init__: current_address = 0x80000000, as an offset
DefaultOrigin == 0

EmptyMap == [n \in {} |-> 0]

\* opcode_size // 8 of a definition; -1 stands for None
size_of_definition(definition) ==
  IF definition = None THEN -1 ELSE definition.opcode_size \div 8

\* AssemblerEngine._calculate_instruction_size: find_instruction is called
\* with the mnemonic and the operand count only
calculate_instruction_size(ins, force_32bit, no_implicit) ==
  size_of_definition(find_instruction(ins.mnemonic, Len(ins.operands), << >>,
                                      force_32bit, no_implicit))

\* _first_pass: the address advances by the size, or the size is unknown
advance_by_size(st, labels1, inst_size) ==
  IF inst_size < 0
  THEN [st EXCEPT !.labels = labels1, !.ok = FALSE, !.errors = @ + 1]
  ELSE [st EXCEPT !.labels = labels1, !.address = @ + inst_size]

\* AssemblerEngine._first_pass for line i; st holds the running address,
\* self.current_address, self.labels (address and line of definition), the
\* number of error diagnostics and the return value so far
first_pass_line(line, i, st, force_32bit, no_implicit) ==
  IF line.kind = "org"
  THEN [st EXCEPT !.address = line.org, !.current_address = line.org]
  ELSE IF line.label # "" /\ line.label \in DOMAIN st.labels
  THEN [st EXCEPT !.ok = FALSE, !.errors = @ + 1]
  ELSE advance_by_size(st,
         IF line.label # ""
         THEN st.labels @@ (line.label :> [address |-> st.address, line_defined |-> i])
         ELSE st.labels,
         IF line.kind = "ins"
         THEN calculate_instruction_size(line.ins, force_32bit, no_implicit)
         ELSE 0)

\* AssemblerEngine._first_pass from line i on: it returns at the first line
\* that fails
RECURSIVE first_pass_from(_, _, _, _, _)
first_pass_from(lines, i, st, force_32bit, no_implicit) ==
  IF i > Len(lines) \/ ~st.ok THEN st
  ELSE first_pass_from(lines, i + 1,
         first_pass_line(lines[i], i, st, force_32bit, no_implicit),
         force_32bit, no_implicit)

first_pass(lines, force_32bit, no_implicit) ==
  first_pass_from(lines, 1,
    [address |-> DefaultOrigin, current_address |-> DefaultOrigin,
     labels |-> EmptyMap, errors |-> 0, ok |-> TRUE], force_32bit, no_implicit)

\* _second_pass: the encoded instruction is recorded, or the pass fails
record_encoded(st, i, ins, encoded) ==
  IF ~encoded.ok
  THEN [st EXCEPT !.ok = FALSE, !.errors = @ + encoded.errors]
  ELSE [st EXCEPT
          !.instructions = Append(@, [address |-> st.address,
                                      opcode |-> encoded.binary_value,
                                      size |-> encoded.size,
                                      source_line |-> i,
                                      source_text |-> ins]),
          !.address = @ + encoded.size]

\* AssemblerEngine._second_pass for line i
second_pass_line(line, i, st, label_addresses, force_32bit, no_implicit) ==
  IF line.kind = "org" THEN [st EXCEPT !.address = line.org]
  ELSE IF line.kind = "label" THEN st
  ELSE record_encoded(st, i, line.ins,
         encode_instruction(line.ins, st.address, label_addresses, force_32bit,
                            no_implicit))

\* AssemblerEngine._second_pass from line i on; the running address starts
\* at self.current_address as the first pass left it
RECURSIVE second_pass_from(_, _, _, _, _, _)
second_pass_from(lines, i, st, label_addresses, force_32bit, no_implicit) ==
  IF i > Len(lines) \/ ~st.ok THEN st
  ELSE second_pass_from(lines, i + 1,
         second_pass_line(lines[i], i, st, label_addresses, force_32bit, no_implicit),
         label_addresses, force_32bit, no_implicit)

\* self.labels as name -> address
label_addresses_of(p1) == [n \in DOMAIN p1.labels |-> p1.labels[n].address]

second_pass(lines, p1, force_32bit, no_implicit) ==
  second_pass_from(lines, 1,
    [address |-> p1.current_address, instructions |-> << >>, errors |-> 0, ok |-> TRUE],
    label_addresses_of(p1), force_32bit, no_implicit)

\* the object file as _write_object_file stores it and
\* Linker._load_single_object_file reads it back (size clamped to one byte,
\* labels without the engine's bookkeeping, self.symbols as the list of
\* unresolved symbols)
object_file(p1, p2) ==
  [instructions |->
     [k \in 1..Len(p2.instructions) |->
        [address |-> p2.instructions[k].address,
         opcode |-> p2.instructions[k].opcode,
         size |-> Min2(p2.instructions[k].size, 255),
         source_text |-> p2.instructions[k].source_text]],
   instruction_lines |->
     [k \in 1..Len(p2.instructions) |-> p2.instructions[k].source_line],
   labels |-> label_addresses_of(p1),
   label_lines |-> [n \in DOMAIN p1.labels |-> p1.labels[n].line_defined],
   unresolved_symbols |-> << >>]

\* assemble_file once both passes have run
assemble_outcome(p1, p2) ==
  IF ~p1.ok THEN [ok |-> FALSE, errors |-> p1.errors, obj |-> None]
  ELSE IF ~p2.ok THEN [ok |-> FALSE, errors |-> p2.errors, obj |-> None]
  ELSE [ok |-> TRUE, errors |-> 0, obj |-> object_file(p1, p2)]

assemble_passes(lines, p1, force_32bit, no_implicit) ==
  assemble_outcome(p1, second_pass(lines, p1, force_32bit, no_implicit))

\* AssemblerEngine.assemble_file of an engine built with the options
\* force_32bit and no_implicit: both passes; on success the object file
assemble_file(lines, force_32bit, no_implicit) ==
  assemble_passes(lines, first_pass(lines, force_32bit, no_implicit),
                  force_32bit, no_implicit)

\* ------------------------------------------------------------------------
\* Linker: symbol resolution and size/address convergence (linker.py)
\* ------------------------------------------------------------------------

max_iterations == 10

\* label map over all object files, a later object overriding an earlier one
RECURSIVE global_labels_upto(_, _)
global_labels_upto(objs, n) ==
  IF n = 0 THEN EmptyMap
  ELSE objs[n].labels @@ global_labels_upto(objs, n - 1)

global_labels(objs) == global_labels_upto(objs, Len(objs))

\* names some earlier object file already defines
DefinedBefore(objs, n) == UNION { DOMAIN objs[k].labels : k \in 1..(n - 1) }

\* Linker._resolve_symbols
resolve_symbols(objs) ==
  LET multiply == \E n \in 1..Len(objs) : DOMAIN objs[n].labels \cap DefinedBefore(objs, n) # {}
      defined == UNION { DOMAIN objs[k].labels : k \in 1..Len(objs) }
      references ==
        UNION { { <<k, r>> : r \in 1..Len(objs[k].unresolved_symbols) } : k \in 1..Len(objs) }
      undefined_refs ==
        { ref \in references : objs[ref[1]].unresolved_symbols[ref[2]][1] \notin defined }
      unresolved == { objs[ref[1]].unresolved_symbols[ref[2]][1] : ref \in undefined_refs }
  IN IF multiply
     THEN [ok |-> FALSE, errors |-> 1, unresolved |-> {}, global_symbols |-> EmptyMap]
     ELSE IF unresolved # {}
     THEN [ok |-> FALSE, errors |-> Cardinality(undefined_refs) + 1,
           unresolved |-> unresolved, global_symbols |-> EmptyMap]
     ELSE [ok |-> TRUE, errors |-> 0, unresolved |-> {},
           global_symbols |-> global_labels(objs)]

\* lines 398-425: every instruction re-encoded at its old address with the
\* labels of the iteration's start; a failed encoding keeps the old record.
\* The linker builds its loader as InstructionSetLoader(force_32bit=...), so
\* no_implicit has its default False in every encoding of the linker.
with_encoding(inst, encoded) ==
  IF encoded.ok
  THEN [inst EXCEPT !.opcode = encoded.binary_value, !.size = encoded.size]
  ELSE inst

reencode(inst, labels, force_32bit) ==
  with_encoding(inst,
    encode_instruction(inst.source_text, inst.address, labels, force_32bit, FALSE))

reencode_errors(inst, labels, force_32bit) ==
  encode_instruction(inst.source_text, inst.address, labels, force_32bit, FALSE).errors

RECURSIVE SumErrors(_, _, _, _)
SumErrors(instructions, k, labels, force_32bit) ==
  IF k > Len(instructions) THEN 0
  ELSE reencode_errors(instructions[k], labels, force_32bit)
         + SumErrors(instructions, k + 1, labels, force_32bit)

\* lines 461-484: addresses recomputed in sequence, a gap of the old layout
\* re-created behind the new end of the previous instruction
GapBefore(old_instructions, idx) ==
  LET expected_old == old_instructions[idx - 1].address + old_instructions[idx - 1].size
  IN IF old_instructions[idx].address > expected_old
     THEN old_instructions[idx].address - expected_old
     ELSE 0

RECURSIVE layout_from(_, _, _, _)
layout_from(old_instructions, new_instructions, idx, final_instructions) ==
  IF idx > Len(new_instructions) THEN final_instructions
  ELSE LET new_addr ==
             IF idx = 1 THEN new_instructions[1].address
             ELSE final_instructions[idx - 1].address + final_instructions[idx - 1].size
                    + GapBefore(old_instructions, idx)
       IN layout_from(old_instructions, new_instructions, idx + 1,
            Append(final_instructions, [new_instructions[idx] EXCEPT !.address = new_addr]))

\* source text starts with one of 'J', 'CALL', 'JNZ', 'JZ', 'JEQ', 'JNE',
\* 'JL', 'LOOP' (of the mnemonics of the instruction table: J and LOOP)
is_branch(source_text) ==
  source_text.mnemonic \in {"J", "JNZ", "JZ", "JEQ", "JNE", "JL", "JLT", "JGE",
                            "JGEU", "JLTU", "CALL", "LOOP"}

\* '_' in label_name and label_name.endswith('Assembly'): none of the label
\* names used here
NamedLikeFunction(label_name) == FALSE

\* lines 488-533: the new address of one label
updated_label(label_name, label_addr, new_instructions, final_instructions) ==
  LET n == Len(new_instructions)
      at == { k \in 1..n : new_instructions[k].address = label_addr }
      before == { k \in 1..n : new_instructions[k].address <= label_addr }
  IN IF at # {}
     THEN LET inst_idx == CHOOSE k \in at : \A j \in at : k <= j
              last_idx == CHOOSE k \in at : \A j \in at : k >= j
              is_likely_function == inst_idx = 1 \/ NamedLikeFunction(label_name)
          IN IF is_branch(new_instructions[inst_idx].source_text)
                /\ ~is_likely_function /\ inst_idx + 1 <= n
             THEN final_instructions[inst_idx + 1].address
             ELSE final_instructions[last_idx].address
     ELSE IF before # {}
     THEN LET old_addr == CHOOSE a \in { new_instructions[k].address : k \in before } :
                            \A k \in before : new_instructions[k].address <= a
              src == CHOOSE k \in before :
                        /\ new_instructions[k].address = old_addr
                        /\ \A j \in before :
                             new_instructions[j].address = old_addr => j <= k
          IN label_addr + (final_instructions[src].address - old_addr)
     ELSE label_addr

\* one object file in one iteration of the loop of _optimize_instruction_sizes
relaid(obj, new_instructions, final_instructions) ==
  [obj EXCEPT
     !.instructions = final_instructions,
     !.labels = [name \in DOMAIN obj.labels |->
                   updated_label(name, obj.labels[name], new_instructions,
                                 final_instructions)]]

reencoded(obj, new_instructions) ==
  relaid(obj, new_instructions, layout_from(obj.instructions, new_instructions, 1, << >>))

optimize_object(obj, labels, force_32bit) ==
  reencoded(obj,
    [k \in 1..Len(obj.instructions) |-> reencode(obj.instructions[k], labels, force_32bit)])

\* sizes_changed of one iteration
sizes_changed_in(objs, labels, force_32bit) ==
  \E n \in 1..Len(objs) : \E k \in 1..Len(objs[n].instructions) :
    reencode(objs[n].instructions[k], labels, force_32bit).size # objs[n].instructions[k].size

RECURSIVE pass_errors(_, _, _, _)
pass_errors(objs, n, labels, force_32bit) ==
  IF n > Len(objs) THEN 0
  ELSE SumErrors(objs[n].instructions, 1, labels, force_32bit)
         + pass_errors(objs, n + 1, labels, force_32bit)

\* one iteration of the while loop of _optimize_instruction_sizes
optimize_with(objs, labels, force_32bit) ==
  [objs |-> [n \in 1..Len(objs) |-> optimize_object(objs[n], labels, force_32bit)],
   sizes_changed |-> sizes_changed_in(objs, labels, force_32bit),
   errors |-> pass_errors(objs, 1, labels, force_32bit)]

optimize_pass(objs, force_32bit) == optimize_with(objs, global_labels(objs), force_32bit)

\* a loop without the cap
loop_continues_uncapped(iteration) == TRUE

\* "while iteration < max_iterations"
loop_continues(iteration) == iteration < max_iterations

\* a loop that takes the first pass without a size change as convergence
loop_breaks_at_once(sizes_changed, iteration) == ~sizes_changed

\* "if not sizes_changed and iteration >= 2: break"
loop_breaks(sizes_changed, iteration) == ~sizes_changed /\ iteration >= 2

\* the while loop of _optimize_instruction_sizes from a given iteration count
\* on: the object files it leaves behind
RECURSIVE optimize_from(_, _, _)
optimize_from(objs, iteration, force_32bit) ==
  IF ~loop_continues(iteration) THEN objs
  ELSE LET pass == optimize_pass(objs, force_32bit)
       IN IF loop_breaks(pass.sizes_changed, iteration + 1) THEN pass.objs
          ELSE optimize_from(pass.objs, iteration + 1, force_32bit)

\* Linker._optimize_instruction_sizes, called once
optimize_instruction_sizes(objs, force_32bit) == optimize_from(objs, 0, force_32bit)

\* ------------------------------------------------------------------------
\* Linker: label fix, final re-encoding, output (linker.py)
\* ------------------------------------------------------------------------

\* link_files lines 95-119: a label takes the address of the first
\* instruction whose source line is greater than the label's line
fix_labels(obj) ==
  [obj EXCEPT !.labels =
     [name \in DOMAIN obj.labels |->
        LET after == { k \in 1..Len(obj.instructions) :
                         obj.instruction_lines[k] > obj.label_lines[name] }
        IN IF after # {}
           THEN obj.instructions[CHOOSE k \in after : \A j \in after : k <= j].address
           ELSE obj.labels[name]]]

\* the label fix of link_files over all object files
fix_label_addresses(objs) == [n \in 1..Len(objs) |-> fix_labels(objs[n])]

\* Linker._final_reencoding_pass for one instruction: new encoding, old size
with_opcode(inst, encoded) ==
  IF encoded.ok THEN [inst EXCEPT !.opcode = encoded.binary_value] ELSE inst

final_reencode(inst, labels, force_32bit) ==
  with_opcode(inst,
    encode_instruction(inst.source_text, inst.address, labels, force_32bit, FALSE))

final_reencoding_with(objs, labels, force_32bit) ==
  [n \in 1..Len(objs) |->
     [objs[n] EXCEPT !.instructions =
        [k \in 1..Len(objs[n].instructions) |->
           final_reencode(objs[n].instructions[k], labels, force_32bit)]]]

final_reencoding_pass(objs, force_32bit) ==
  final_reencoding_with(objs, global_labels(objs), force_32bit)

\* all instructions of all object files, in object order
RECURSIVE all_instructions_upto(_, _)
all_instructions_upto(objs, n) ==
  IF n = 0 THEN << >>
  ELSE all_instructions_upto(objs, n - 1) \o objs[n].instructions

\* python's stable list.sort(key=address), as insertion from the left
RECURSIVE InsertByAddress(_, _)
InsertByAddress(sorted, x) ==
  IF Len(sorted) = 0 THEN << x >>
  ELSE IF sorted[Len(sorted)].address <= x.address THEN Append(sorted, x)
  ELSE Append(InsertByAddress(SubSeq(sorted, 1, Len(sorted) - 1), x), sorted[Len(sorted)])

RECURSIVE SortByAddress(_, _)
SortByAddress(seq, n) ==
  IF n = 0 THEN << >> ELSE InsertByAddress(SortByAddress(seq, n - 1), seq[n])

sorted_by_address(all) == SortByAddress(all, Len(all))

all_instructions(objs) == sorted_by_address(all_instructions_upto(objs, Len(objs)))

\* bytes a record claims in _check_address_conflicts (a size of 0 counts 1)
ClaimedBytes(inst) ==
  { inst.address + offset : offset \in 0..((IF inst.size = 0 THEN 1 ELSE inst.size) - 1) }

\* conflicts of Linker._check_address_conflicts: a byte claimed by a record
\* that an earlier record of the list already claims
conflicts(instructions) ==
  { <<k, addr>> \in UNION { { <<k, a>> : a \in ClaimedBytes(instructions[k]) } :
                             k \in 1..Len(instructions) } :
      \E j \in 1..(k - 1) : addr \in ClaimedBytes(instructions[j]) }

\* no check at all
check_address_conflicts_skipped(instructions) == TRUE

\* Linker._check_address_conflicts: True when there is no conflict
check_address_conflicts(instructions) == conflicts(instructions) = {}

\* lines 818-832: the four bytes written for a regular instruction
instruction_bytes(inst, little_endian) ==
  [a \in inst.address..(inst.address + 3) |->
     IF little_endian THEN WordByte(inst.opcode, a - inst.address)
     ELSE WordByte(inst.opcode, 3 - (a - inst.address))]

\* the memory image after the records 1..n were written in list order
RECURSIVE memory_image_upto(_, _, _)
memory_image_upto(instructions, n, little_endian) ==
  IF n = 0 THEN EmptyMap
  ELSE instruction_bytes(instructions[n], little_endian)
         @@ memory_image_upto(instructions, n - 1, little_endian)

SetMin(S) == CHOOSE x \in S : \A y \in S : x <= y
SetMax(S) == CHOOSE x \in S : \A y \in S : x >= y

\* ------------------------------------------------------------------------
\* Intel HEX writer (linker.py, _generate_intel_hex_custom)
\* ------------------------------------------------------------------------

\* high 16 bits of 0x80000000
OriginHigh == 32768

HexRecordMax == 16

\* the high half of the origin, whatever the address
extended_addr_of_origin(addr) == OriginHigh

\* (addr >> 16) & 0xFFFF of the real address 0x80000000 + addr
extended_addr_of(addr) == (OriginHigh + (addr \div Half)) % Half

RECURSIVE SumSeq(_, _)
SumSeq(data, k) == IF k > Len(data) THEN 0 ELSE data[k] + SumSeq(data, k + 1)

\* a data record whose checksum leaves the address bytes out
write_hex_record_without_address(address, data) ==
  [type |-> 0, address |-> address % Half, data |-> data,
   checksum |-> (-(Len(data) + SumSeq(data, 1))) % 256]

\* Linker._write_hex_record (type 00)
write_hex_record(address, data) ==
  LET address_16bit == address % Half
      checksum == Len(data) + (address_16bit \div 256) + (address_16bit % 256)
                    + 0 + SumSeq(data, 1)
  IN [type |-> 0, address |-> address_16bit, data |-> data,
      checksum |-> (-checksum) % 256]

\* an extended address record with the two data bytes in the other order
write_extended_address_record_swapped(extended_addr) ==
  [type |-> 4, address |-> 0,
   data |-> << extended_addr % 256, (extended_addr \div 256) % 256 >>,
   checksum |-> (-(6 + ((extended_addr \div 256) % 256) + (extended_addr % 256))) % 256]

\* Linker._write_extended_address_record (type 04)
write_extended_address_record(extended_addr) ==
  LET data_high == (extended_addr \div 256) % 256
      data_low == extended_addr % 256
      checksum == 2 + 0 + 0 + 4 + data_high + data_low
  IN [type |-> 4, address |-> 0, data |-> << data_high, data_low >>,
      checksum |-> (-checksum) % 256]

\* ":00000001FF"
EndOfFileRecord == [type |-> 1, address |-> 0, data |-> << >>, checksum |-> 255]

NoAddress == -1

\* the pending data record written out, if there is one
flush_record(st) ==
  IF Len(st.current_data) > 0
  THEN Append(st.records, write_hex_record(st.current_address, st.current_data))
  ELSE st.records

\* the body of "if extended_addr != current_extended_addr": the pending
\* record and an extended address record are written
open_page(st, extended_addr) ==
  [records |-> Append(flush_record(st), write_extended_address_record(extended_addr)),
   current_extended_addr |-> extended_addr,
   current_address |-> NoAddress,
   current_data |-> << >>]

\* a contiguous byte joins the pending record, which is written when full
extend_record(st, data) ==
  IF Len(data) >= HexRecordMax
  THEN [st EXCEPT !.records = Append(@, write_hex_record(st.current_address, data)),
                  !.current_address = NoAddress,
                  !.current_data = << >>]
  ELSE [st EXCEPT !.current_data = data]

\* the byte at addr is added to the pending data record
add_byte(memory, addr, st) ==
  IF st.current_address = NoAddress
  THEN [st EXCEPT !.current_address = addr, !.current_data = << memory[addr] >>]
  ELSE IF addr = st.current_address + Len(st.current_data)
  THEN extend_record(st, Append(st.current_data, memory[addr]))
  ELSE [st EXCEPT !.records = flush_record(st),
                  !.current_address = addr,
                  !.current_data = << memory[addr] >>]

\* sorted(memory.keys())
sorted_keys(memory) ==
  [i \in 1..Cardinality(DOMAIN memory) |->
     CHOOSE a \in DOMAIN memory : Cardinality({ b \in DOMAIN memory : b < a }) = i - 1]

\* the loop of _generate_intel_hex_custom from the i-th address on; st holds
\* the records written so far, current_extended_addr, current_address and
\* current_data (NoAddress for None)
RECURSIVE hex_loop(_, _, _, _)
hex_loop(memory, addresses, i, st) ==
  IF i > Len(addresses) THEN st
  ELSE IF extended_addr_of(addresses[i]) # st.current_extended_addr
  THEN hex_loop(memory, addresses, i + 1,
         add_byte(memory, addresses[i], open_page(st, extended_addr_of(addresses[i]))))
  ELSE hex_loop(memory, addresses, i + 1, add_byte(memory, addresses[i], st))

\* Linker._generate_intel_hex_custom: the records of the file
generate_intel_hex_custom(memory) ==
  IF DOMAIN memory = {} THEN << EndOfFileRecord >>
  ELSE Append(flush_record(hex_loop(memory, sorted_keys(memory), 1,
                [records |-> << >>, current_extended_addr |-> NoAddress,
                 current_address |-> NoAddress, current_data |-> << >>])),
              EndOfFileRecord)

\* ------------------------------------------------------------------------
\* Linker._generate_output
\* ------------------------------------------------------------------------

NoOutput == [written |-> FALSE, format |-> "", min_addr |-> 0, size |-> 0, records |-> << >>]

\* the file written for a memory image: for 'bin' the zero-filled bytearray
\* from the lowest to the highest address of the image (its byte i is
\* binary_data below), for 'hex' the records
emit(memory, output_format) ==
  IF output_format = "hex"
  THEN [written |-> TRUE, format |-> "hex", min_addr |-> 0, size |-> 0,
        records |-> generate_intel_hex_custom(memory)]
  ELSE IF DOMAIN memory = {}
  THEN [written |-> TRUE, format |-> "bin", min_addr |-> 0, size |-> 0, records |-> << >>]
  ELSE [written |-> TRUE, format |-> "bin", min_addr |-> SetMin(DOMAIN memory),
        size |-> SetMax(DOMAIN memory) - SetMin(DOMAIN memory) + 1, records |-> << >>]

\* lines 891-897: the bytearray of the 'bin' file, zero where the image has
\* no byte
binary_data(memory, min_addr, size) ==
  [i \in 0..(size - 1) |-> IF min_addr + i \in DOMAIN memory THEN memory[min_addr + i] ELSE 0]

\* the file written for the memory image
written(memory, output_format) ==
  [ok |-> TRUE, errors |-> 0, memory_image |-> memory, output |-> emit(memory, output_format)]

\* _generate_output for the sorted list of all instructions
output_of(instructions, output_format, is_little_endian) ==
  IF Len(instructions) = 0
  THEN [ok |-> TRUE, errors |-> 1, memory_image |-> EmptyMap,
        output |-> emit(EmptyMap, output_format)]
  ELSE IF ~check_address_conflicts(instructions)
  THEN [ok |-> FALSE, errors |-> 1 + Cardinality(conflicts(instructions)),
        memory_image |-> EmptyMap, output |-> NoOutput]
  ELSE written(memory_image_upto(instructions, Len(instructions), is_little_endian),
               output_format)

generate_output(objs, output_format, is_little_endian) ==
  output_of(all_instructions(objs), output_format, is_little_endian)

\* link_files from the label fix on (lines 95-131), for object files as the
\* loop left them
link_tail(objs, force_32bit, output_format, is_little_endian) ==
  generate_output(final_reencoding_pass(fix_label_addresses(objs), force_32bit),
                  output_format, is_little_endian)

\* ------------------------------------------------------------------------
\* Source programs
\* ------------------------------------------------------------------------

MaxLines == 3
MaxLinesFirst == 1
MaxLinesSecond == 2
ChainLength == 20

\* .ORG operands inside a file, as offsets from 0x80000000: a near address
\* and the last word of a 64 KiB page
OrgValues == {8, 65532}

NOP == Ins("NOP", << >>)
J(target) == Ins("J", << Lbl(target) >>)
LOOP(target) == Ins("LOOP", << Reg("A", 2), Lbl(target) >>)

\* the lines of a file that defines the label own: every body with and
\* without the label in front, the bodies that stay unlabelled, the label
\* alone, and .ORG lines
LinesOf(bodies, unlabelled, own, orgs) ==
  { InsLine(l, b) : l \in {"", own}, b \in bodies }
    \cup { InsLine("", b) : b \in unlabelled }
    \cup { LabelLine(own) } \cup { OrgLine(x) : x \in orgs }

SeqsUpTo(S, n) == UNION { [1..k -> S] : k \in 0..n }

\* one file defining foo, referring to foo and to the undefined qux: an
\* optional leading .ORG to the default origin, then up to MaxLines lines
SingleFilePrograms ==
  { << head \o body >> :
      head \in { << >>, << OrgLine(DefaultOrigin) >> },
      body \in SeqsUpTo(LinesOf({NOP, J("foo"), LOOP("foo")}, {J("qux")}, "foo", OrgValues),
                        MaxLines) }

\* two files: the first defines foo, the second bar, each may refer to both
TwoFilePrograms ==
  { << a, b >> :
      a \in SeqsUpTo(LinesOf({NOP, J("foo"), J("bar")}, {}, "foo", {}), MaxLinesFirst),
      b \in SeqsUpTo(LinesOf({NOP, J("bar"), J("foo")}, {}, "bar", OrgValues),
                     MaxLinesSecond) }

\* NOP, then a chain of backward LOOPs to the label on the first of them
ChainProgram ==
  << [k \in 1..(ChainLength + 2) |->
        IF k = 1 \/ k = ChainLength + 2 THEN InsLine("", NOP)
        ELSE IF k = 2 THEN InsLine("foo", LOOP("foo"))
        ELSE InsLine("", LOOP("foo"))] >>

\* a 16-bit LOOP whose forward target lies 26 bytes ahead, on the first of
\* two jumps: 26 and 30 are in reach of the 4-bit displacement, 34 is not
DriftProgram ==
  << << OrgLine(0), InsLine("", LOOP("foo")), OrgLine(26),
        InsLine("foo", J("foo")), InsLine("", J("foo")), InsLine("", NOP) >> >>

\* a 16-bit LOOP to itself in front of an .ORG gap of 252 bytes: once the
\* label has moved behind the gap the LOOP needs its 32-bit form
GapProgram ==
  << << OrgLine(0), InsLine("", NOP), InsLine("foo", LOOP("foo")), OrgLine(256),
        InsLine("", NOP) >> >>

Programs ==
  SingleFilePrograms \cup TwoFilePrograms \cup { ChainProgram, DriftProgram, GapProgram }

\* ------------------------------------------------------------------------
\* Numeric constants (numeric_parser.py)
\*
\* A literal is the sequence of its characters.  Python's integers are
\* unbounded; an integer is kept as the record [neg, hi, lo] of its sign and
\* of the two halves of its magnitude hi * 65536 + lo, so that the magnitude
\* 2^31 of the least 32-bit integer is a value of the model.
\* ------------------------------------------------------------------------

Magnitude(n) == [hi |-> n \div Half, lo |-> n % Half]

\* magnitude * base + digit
MulAdd(m, base, d) ==
  [hi |-> m.hi * base + (m.lo * base + d) \div Half, lo |-> (m.lo * base + d) % Half]

\* the integer of a sign and a magnitude (-0 is 0)
Signed(neg, m) == [neg |-> neg /\ (m.hi # 0 \/ m.lo # 0), hi |-> m.hi, lo |-> m.lo]

\* python's unary minus
Negated(v) == Signed(~v.neg, v)

HexDigits ==
  << "0", "1", "2", "3", "4", "5", "6", "7", "8", "9", "a", "b", "c", "d", "e", "f" >>

UpperCase == [c \in {"a", "b", "c", "d", "e", "f", "h", "x", "y", "o", "q"} |->
  CASE c = "a" -> "A" [] c = "b" -> "B" [] c = "c" -> "C" [] c = "d" -> "D"
    [] c = "e" -> "E" [] c = "f" -> "F" [] c = "h" -> "H" [] c = "x" -> "X"
    [] c = "y" -> "Y" [] c = "o" -> "O" [] c = "q" -> "Q"]

\* str.lower() of one character
LowerChar(c) ==
  IF \E l \in DOMAIN UpperCase : UpperCase[l] = c
  THEN CHOOSE l \in DOMAIN UpperCase : UpperCase[l] = c
  ELSE c

\* str.upper() of one character
UpperChar(c) == IF c \in DOMAIN UpperCase THEN UpperCase[c] ELSE c

\* the value of a digit character in int(), 16 for any other character
DigitValue(c) ==
  IF \E d \in 1..16 : HexDigits[d] = LowerChar(c)
  THEN (CHOOSE d \in 1..16 : HexDigits[d] = LowerChar(c)) - 1
  ELSE 16

ParseFailed == [ok |-> FALSE, value |-> Signed(FALSE, Magnitude(0))]
ParseOk(v) == [ok |-> TRUE, value |-> v]

\* int(s, base) at one digit: a character that is no digit of the base
\* raises ValueError
next_digit(st, base, neg, c) ==
  IF DigitValue(c) >= base THEN ParseFailed
  ELSE ParseOk(Signed(neg, MulAdd(st.value, base, DigitValue(c))))

\* the digits of int(s, base) from position i on
RECURSIVE digits_value(_, _, _, _, _)
digits_value(s, base, neg, i, st) ==
  IF i > Len(s) \/ ~st.ok THEN st
  ELSE digits_value(s, base, neg, i + 1, next_digit(st, base, neg, s[i]))

\* int() after the sign: the prefix 0x, 0b or 0o of the base is skipped,
\* at least one digit is required
unsigned_int(s, base, neg) ==
  LET prefixed == /\ Len(s) >= 2
                  /\ s[1] = "0"
                  /\ \/ base = 16 /\ LowerChar(s[2]) = "x"
                     \/ base = 2 /\ LowerChar(s[2]) = "b"
                     \/ base = 8 /\ LowerChar(s[2]) = "o"
      digits == IF prefixed THEN SubSeq(s, 3, Len(s)) ELSE s
  IN IF Len(digits) = 0 THEN ParseFailed
     ELSE digits_value(digits, base, neg, 1, ParseOk(Signed(FALSE, Magnitude(0))))

\* python's int(s, base) for a string without blanks and underscores; a
\* ValueError is ParseFailed
int(s, base) ==
  IF Len(s) > 0 /\ s[1] \in {"+", "-"}
  THEN unsigned_int(SubSeq(s, 2, Len(s)), base, s[1] = "-")
  ELSE unsigned_int(s, base, FALSE)

\* str.strip()
RECURSIVE strip(_)
strip(s) ==
  IF Len(s) > 0 /\ s[1] = " " THEN strip(SubSeq(s, 2, Len(s)))
  ELSE IF Len(s) > 0 /\ s[Len(s)] = " " THEN strip(SubSeq(s, 1, Len(s) - 1))
  ELSE s

\* str.replace('_', '')
without_underscores(s) == SelectSeq(s, LAMBDA c : c # "_")

\* value_str.lower().startswith of a two-character prefix
startswith2(s, c1, c2) == Len(s) >= 2 /\ LowerChar(s[1]) = c1 /\ LowerChar(s[2]) = c2

\* len(value_str) > 2 and value_str[0] == '0' and value_str[1].lower() == c
alternative_prefix(s, c) == Len(s) > 2 /\ s[1] = "0" /\ LowerChar(s[2]) = c

\* value_str.lower().endswith(c)
endswith(s, c) == Len(s) >= 1 /\ LowerChar(s[Len(s)]) = c

\* value_str[:-1]
ButLast(s) == SubSeq(s, 1, Len(s) - 1)

\* the trailing-h form (lines 58-67); a first digit a-f is never '0', so
\* the inner test always raises
parse_hex_suffix(hex_str) ==
  IF /\ Len(hex_str) > 0
     /\ LowerChar(hex_str[1]) \in {"a", "b", "c", "d", "e", "f"}
     /\ hex_str[1] # "0"
  THEN ParseFailed
  ELSE int(hex_str, 16)

\* the $ form (lines 70-80)
parse_hex_dollar(hex_str) ==
  IF Len(hex_str) = 0 THEN ParseFailed
  ELSE IF LowerChar(hex_str[1]) \in {"a", "b", "c", "d", "e", "f"} THEN ParseFailed
  ELSE int(hex_str, 16)

\* NumericParser.parse once blanks and underscores are removed
parse_stripped(s) ==
  IF startswith2(s, "0", "x") THEN int(s, 16)
  ELSE IF alternative_prefix(s, "h") THEN int(SubSeq(s, 3, Len(s)), 16)
  ELSE IF endswith(s, "h") THEN parse_hex_suffix(ButLast(s))
  ELSE IF Len(s) >= 1 /\ s[1] = "$" THEN parse_hex_dollar(SubSeq(s, 2, Len(s)))
  ELSE IF startswith2(s, "0", "b") THEN int(SubSeq(s, 3, Len(s)), 2)
  ELSE IF alternative_prefix(s, "y") THEN int(SubSeq(s, 3, Len(s)), 2)
  ELSE IF endswith(s, "b") THEN int(ButLast(s), 2)
  ELSE IF endswith(s, "y") THEN int(ButLast(s), 2)
  ELSE IF startswith2(s, "0", "o") THEN int(SubSeq(s, 3, Len(s)), 8)
  ELSE IF alternative_prefix(s, "q") THEN int(SubSeq(s, 3, Len(s)), 8)
  ELSE IF endswith(s, "q") THEN int(ButLast(s), 8)
  ELSE IF endswith(s, "o") THEN int(ButLast(s), 8)
  ELSE IF alternative_prefix(s, "d") THEN int(SubSeq(s, 3, Len(s)), 10)
  ELSE IF endswith(s, "d") THEN int(ButLast(s), 10)
  ELSE int(s, 10)

\* NumericParser.parse
parse(value_str) ==
  IF Len(strip(value_str)) = 0 THEN ParseFailed
  ELSE parse_stripped(without_underscores(strip(value_str)))

\* -NumericParser.parse(...)
negative_of(parsed) == IF parsed.ok THEN ParseOk(Negated(parsed.value)) ELSE parsed

\* NumericParser.parse_with_sign
parse_with_sign(value_str) ==
  IF Len(strip(value_str)) > 0 /\ strip(value_str)[1] = "+"
  THEN parse(SubSeq(strip(value_str), 2, Len(strip(value_str))))
  ELSE IF Len(strip(value_str)) > 0 /\ strip(value_str)[1] = "-"
  THEN negative_of(parse(SubSeq(strip(value_str), 2, Len(strip(value_str)))))
  ELSE parse(strip(value_str))

\* parse_numeric
parse_numeric(value_str) == parse_with_sign(value_str)

\* the forms of a literal (module docstring and self-test of numeric_parser.py)
Formats ==
  {"0x", "0h", "h", "$0", "0b", "0y", "b", "y", "0o", "0q", "o", "q", "0d", "d", "plain"}

BaseOf(format) ==
  IF format \in {"0x", "0h", "h", "$0"} THEN 16
  ELSE IF format \in {"0b", "0y", "b", "y"} THEN 2
  ELSE IF format \in {"0o", "0q", "o", "q"} THEN 8
  ELSE 10

\* magnitude \div base
MagDiv(m, base) ==
  [hi |-> m.hi \div base, lo |-> ((m.hi % base) * Half + m.lo) \div base]

\* magnitude % base
MagMod(m, base) == ((m.hi % base) * Half + m.lo) % base

\* the digits of a magnitude in a base, most significant first, "0" for zero
RECURSIVE DigitsOf(_, _)
DigitsOf(m, base) ==
  IF m.hi = 0 /\ m.lo < base THEN << HexDigits[m.lo + 1] >>
  ELSE Append(DigitsOf(MagDiv(m, base), base), HexDigits[MagMod(m, base) + 1])

\* the literal of a magnitude in a form; the trailing-h form takes the
\* leading 0 it requires before a first digit a-f
RenderMagnitude(m, format) ==
  LET digits == DigitsOf(m, BaseOf(format))
  IN CASE format = "0x" -> << "0", "x" >> \o digits
       [] format = "0h" -> << "0", "h" >> \o digits
       [] format = "h"  -> (IF DigitValue(digits[1]) >= 10 THEN << "0" >> ELSE << >>)
                              \o digits \o << "h" >>
       [] format = "$0" -> << "$", "0" >> \o digits
       [] format = "0b" -> << "0", "b" >> \o digits
       [] format = "0y" -> << "0", "y" >> \o digits
       [] format = "b"  -> digits \o << "b" >>
       [] format = "y"  -> digits \o << "y" >>
       [] format = "0o" -> << "0", "o" >> \o digits
       [] format = "0q" -> << "0", "q" >> \o digits
       [] format = "o"  -> digits \o << "o" >>
       [] format = "q"  -> digits \o << "q" >>
       [] format = "0d" -> << "0", "d" >> \o digits
       [] format = "d"  -> digits \o << "d" >>
       [] OTHER         -> digits

\* the literal of an integer in a form, in lower or in upper case
Render(n, format, upper) ==
  LET body == RenderMagnitude(n, format)
      cased == IF upper THEN [i \in 1..Len(body) |-> UpperChar(body[i])] ELSE body
  IN IF n.neg THEN << "-" >> \o cased ELSE cased

\* ------------------------------------------------------------------------
\* State machine: TASM.py compile_assembly_file / compile_multiple_files
\* ------------------------------------------------------------------------

VARIABLES
  sources,          \* the source files, each a sequence of lines
  force_32bit,      \* command-line option --force-32bit
  pc,               \* position in the pipeline
  objs,             \* Linker.object_files
  global_symbols,   \* Linker.global_symbols (name -> address)
  iteration,        \* iteration of _optimize_instruction_sizes
  sizes_changed,    \* sizes_changed of the last iteration
  errors,           \* logger.stats[ERROR] + stats[ABORT] + stats[FATAL]
  link_errors,      \* the part of errors logged inside Linker.link_files
  link_result,      \* return value of Linker.link_files
  result,           \* return value of the compile function
  endianness,       \* architecture.endianness as _generate_output read it
  memory_image,     \* memory_image of _generate_output
  output,           \* the emitted output file
  no_implicit,      \* command-line option -Ono-implicit
  parsed_instruction,   \* the ParsedInstruction of a direct call of loader and encoder
  found_definition,     \* what InstructionSetLoader.find_instruction returned for it
  encoded_instruction,  \* what InstructionEncoder.encode_instruction returned for it
  numeric_input,        \* an integer, a literal form and a letter case
  value_str,            \* the literal handed to parse_numeric
  numeric_value         \* what parse_numeric returned for it

\* the variables of a direct call
call_vars == << parsed_instruction, found_definition, encoded_instruction >>

\* the variables of a direct call of the numeric parser
numeric_vars == << numeric_input, value_str, numeric_value >>

\* the variables of the compile pipeline
pipeline_vars ==
  << sources, pc, objs, global_symbols, iteration, sizes_changed, errors, link_errors,
     link_result, result, endianness, memory_image, output >>

vars == << sources, force_32bit, pc, objs, global_symbols, iteration, sizes_changed,
           errors, link_errors, link_result, result, endianness, memory_image, output,
           no_implicit, parsed_instruction, found_definition, encoded_instruction,
           numeric_input, value_str, numeric_value >>

\* no call made, nothing returned yet
NotCalled == [called |-> FALSE]

\* no integer chosen, no literal written
NoNumber == [number |-> Signed(FALSE, Magnitude(0)), format |-> "none", upper |-> FALSE]

\* the numeric parser is not called
NoNumericCall ==
  /\ numeric_input = NoNumber
  /\ value_str = << >>
  /\ numeric_value = NotCalled

Init ==
  /\ sources \in Programs
  /\ force_32bit = FALSE
  /\ pc = "assemble"
  /\ objs = << >>
  /\ global_symbols = EmptyMap
  /\ iteration = 0
  /\ sizes_changed = FALSE
  /\ errors = 0
  /\ link_errors = 0
  /\ link_result = "none"
  /\ result = "none"
  /\ endianness = "unread"
  /\ memory_image = EmptyMap
  /\ output = NoOutput
  /\ no_implicit = FALSE
  /\ parsed_instruction = NoIns
  /\ found_definition = NotCalled
  /\ encoded_instruction = NotCalled
  /\ NoNumericCall

\* check_for_errors() of TASM.py is only called by compile_assembly_file
ChecksForErrors == Len(sources) = 1

\* assemble the next source file with a fresh AssemblerEngine
AssembleFile ==
  /\ pc = "assemble"
  /\ LET r == assemble_file(sources[Len(objs) + 1], force_32bit, no_implicit)
     IN IF ~r.ok
        THEN /\ errors' = errors + r.errors + 1
             /\ result' = "failure"
             /\ pc' = "done"
             /\ objs' = objs
        ELSE /\ objs' = Append(objs, r.obj)
             /\ errors' = errors
             /\ result' = result
             /\ pc' = IF Len(objs) + 1 = Len(sources) THEN "link" ELSE "assemble"
  /\ UNCHANGED << no_implicit, call_vars, numeric_vars, sources, force_32bit, global_symbols, iteration, sizes_changed,
                  link_errors, link_result, endianness, memory_image, output >>

\* link_files up to the loop: _load_object_files and _resolve_symbols
LoadAndResolve ==
  /\ pc = "link"
  /\ LET r == resolve_symbols(objs)
     IN IF ~r.ok
        THEN /\ link_errors' = r.errors
             /\ errors' = errors + r.errors + 1
             /\ link_result' = "failure"
             /\ result' = "failure"
             /\ pc' = "done"
             /\ global_symbols' = global_symbols
        ELSE /\ global_symbols' = r.global_symbols
             /\ pc' = "optimize"
             /\ UNCHANGED << link_errors, errors, link_result, result >>
  /\ iteration' = 0
  /\ UNCHANGED << no_implicit, call_vars, numeric_vars, sources, force_32bit, objs, sizes_changed, endianness,
                  memory_image, output >>

\* one iteration of the while loop of _optimize_instruction_sizes
OptimizeIteration ==
  /\ pc = "optimize"
  /\ loop_continues(iteration)
  /\ LET r == optimize_pass(objs, force_32bit)
     IN /\ objs' = r.objs
        /\ sizes_changed' = r.sizes_changed
        /\ errors' = errors + r.errors
        /\ link_errors' = link_errors + r.errors
        /\ iteration' = iteration + 1
        /\ pc' = IF loop_breaks(r.sizes_changed, iteration + 1)
                    \/ ~loop_continues(iteration + 1)
                 THEN "fix_labels" ELSE "optimize"
  /\ UNCHANGED << no_implicit, call_vars, numeric_vars, sources, force_32bit, global_symbols, link_result, result,
                  endianness, memory_image, output >>

\* link_files lines 95-125: labels fixed by line number, symbol table rebuilt
FixLabelAddresses ==
  /\ pc = "fix_labels"
  /\ objs' = fix_label_addresses(objs)
  /\ global_symbols' = [name \in DOMAIN global_symbols |->
                          IF name \in DOMAIN global_labels(objs')
                          THEN global_labels(objs')[name]
                          ELSE global_symbols[name]]
  /\ pc' = "final"
  /\ UNCHANGED << no_implicit, call_vars, numeric_vars, sources, force_32bit, iteration, sizes_changed, errors, link_errors,
                  link_result, result, endianness, memory_image, output >>

\* Linker._final_reencoding_pass
FinalReencode ==
  /\ pc = "final"
  /\ objs' = final_reencoding_pass(objs, force_32bit)
  /\ LET e == pass_errors(objs, 1, global_labels(objs), force_32bit)
     IN /\ errors' = errors + e
        /\ link_errors' = link_errors + e
  /\ pc' = "output"
  /\ UNCHANGED << no_implicit, call_vars, numeric_vars, sources, force_32bit, global_symbols, iteration, sizes_changed,
                  link_result, result, endianness, memory_image, output >>

\* Linker._generate_output, the return of link_files and of the compile
\* function; the output format is the argument of link_files, the endianness
\* is read from the configuration
GenerateOutput ==
  /\ pc = "output"
  /\ \E output_format \in {"bin", "hex"}, endian \in {"little", "big"} :
       LET r == generate_output(objs, output_format, endian = "little")
           e == errors + r.errors
       IN /\ endianness' = endian
          /\ memory_image' = r.memory_image
          /\ output' = r.output
          /\ link_errors' = link_errors + r.errors
          /\ link_result' = IF r.ok THEN "success" ELSE "failure"
          /\ IF ~r.ok
             THEN errors' = e + 1 /\ result' = "failure"
             ELSE IF ChecksForErrors /\ e # 0
             THEN errors' = e + 1 /\ result' = "failure"
             ELSE errors' = e /\ result' = "success"
  /\ pc' = "done"
  /\ UNCHANGED << no_implicit, call_vars, numeric_vars, sources, force_32bit, objs, global_symbols, iteration, sizes_changed >>

Next ==
  \/ AssembleFile
  \/ LoadAndResolve
  \/ OptimizeIteration
  \/ FixLabelAddresses
  \/ FinalReencode
  \/ GenerateOutput

Spec == Init /\ [][Next]_vars

\* ------------------------------------------------------------------------
\* The pipeline run with the options -O32 and -Ono-implicit (TASM.py main,
\* lines 616-622), on one source file
\* ------------------------------------------------------------------------

MaxOptionLines == 2

MOVI(n) == Ins("MOV", << Reg("D", 4), Num(n) >>)
LDBU(b) == Ins("LD.BU", << Reg("D", 4), Reg("A", b), Num(4) >>)

\* one file of up to MaxOptionLines lines that defines and refers to foo
OptionPrograms ==
  { << body >> :
      body \in SeqsUpTo(LinesOf({NOP, J("foo"), LOOP("foo"), MOVI(5), LDBU(15), LDBU(2)},
                                {}, "foo", {}),
                        MaxOptionLines) }

OptionInit ==
  /\ sources \in OptionPrograms
  /\ force_32bit \in BOOLEAN
  /\ no_implicit \in BOOLEAN
  /\ pc = "assemble"
  /\ objs = << >>
  /\ global_symbols = EmptyMap
  /\ iteration = 0
  /\ sizes_changed = FALSE
  /\ errors = 0
  /\ link_errors = 0
  /\ link_result = "none"
  /\ result = "none"
  /\ endianness = "unread"
  /\ memory_image = EmptyMap
  /\ output = NoOutput
  /\ parsed_instruction = NoIns
  /\ found_definition = NotCalled
  /\ encoded_instruction = NotCalled
  /\ NoNumericCall

OptionSpec == OptionInit /\ [][Next]_vars

\* ------------------------------------------------------------------------
\* Direct calls of the loader and the encoder, as the unit tests make them:
\* InstructionSetLoader(force_32bit, no_implicit).find_instruction and
\* InstructionEncoder(loader).encode_instruction for one parsed instruction
\* ------------------------------------------------------------------------

CallMnemonics == {"NOP", "J", "LOOP", "MOV", "JNZ", "LD.BU", "LD.W", "LEA"}

\* d4, d15, a2, a15
CallRegisters == { Reg("D", 4), Reg("D", 15), Reg("A", 2), Reg("A", 15) }

\* numeric operands around the limits of the 4-, 8-, 16- and 24-bit slots;
\* -16777218 lies below the signed 24-bit range
CallValues ==
  {-16777218, -32769, -129, -9, -8, -2, 0, 5, 7, 8, 15, 16, 127, 255, 256, 300, 65535, 65536,
   74565, 16777215, 16777216}

\* a numeric constant or a name that no label table defines
CallImmediates == { Num(v) : v \in CallValues } \cup { Lbl("qux") }

CallOperands ==
  { << >> }
    \cup { << x >> : x \in CallImmediates }
    \cup { << r, x >> : r \in CallRegisters, x \in CallImmediates }
    \cup { << r, b, x >> : r \in CallRegisters, b \in CallRegisters, x \in CallImmediates }

Calls == { Ins(m, ops) : m \in CallMnemonics, ops \in CallOperands }

CallInit ==
  /\ sources = << >>
  /\ force_32bit \in BOOLEAN
  /\ no_implicit \in BOOLEAN
  /\ pc = "call"
  /\ objs = << >>
  /\ global_symbols = EmptyMap
  /\ iteration = 0
  /\ sizes_changed = FALSE
  /\ errors = 0
  /\ link_errors = 0
  /\ link_result = "none"
  /\ result = "none"
  /\ endianness = "unread"
  /\ memory_image = EmptyMap
  /\ output = NoOutput
  /\ parsed_instruction \in Calls
  /\ found_definition = NotCalled
  /\ encoded_instruction = NotCalled
  /\ NoNumericCall

\* loader.find_instruction(mnemonic, len(operands), operands)
FindInstruction ==
  /\ pc = "call"
  /\ found_definition = NotCalled
  /\ found_definition' =
       find_instruction(parsed_instruction.mnemonic, Len(parsed_instruction.operands),
                        parsed_instruction.operands, force_32bit, no_implicit)
  /\ UNCHANGED << pipeline_vars, numeric_vars, force_32bit, no_implicit,
                  parsed_instruction, encoded_instruction >>

\* encoder.encode_instruction(parsed, 0x80000000, {})
EncodeInstruction ==
  /\ pc = "call"
  /\ encoded_instruction = NotCalled
  /\ encoded_instruction' =
       encode_instruction(parsed_instruction, DefaultOrigin, EmptyMap, force_32bit,
                          no_implicit)
  /\ UNCHANGED << pipeline_vars, numeric_vars, force_32bit, no_implicit,
                  parsed_instruction, found_definition >>

CallNext ==
  \/ FindInstruction
  \/ EncodeInstruction

CallSpec == CallInit /\ [][CallNext]_vars

\* ------------------------------------------------------------------------
\* Direct calls of the numeric parser: an integer is written as a literal in
\* one of the supported forms, then parse_numeric reads the literal
\* ------------------------------------------------------------------------

\* magnitudes below 2^31: small values, values whose hexadecimal digits
\* start with a-f or look like a base letter, and the ends of the 16-bit,
\* 24-bit and 31-bit ranges
NumericMagnitudes ==
  {0, 1, 2, 7, 8, 9, 10, 11, 13, 15, 16, 100, 171, 177, 189, 200, 209, 219, 255, 256,
   2989, 48879, 65535, 65536, 74565, 1000000, 16777215, 2147483647}

\* the integers n with -2^31 <= n < 2^31 that are written
NumericValues ==
  { Signed(neg, Magnitude(m)) : neg \in BOOLEAN, m \in NumericMagnitudes }
    \cup { Signed(TRUE, [hi |-> Half \div 2, lo |-> 0]) }

NumericInputs ==
  [number : NumericValues, format : Formats, upper : BOOLEAN]

NumericInit ==
  /\ sources = << >>
  /\ force_32bit = FALSE
  /\ no_implicit = FALSE
  /\ pc = "numeric"
  /\ objs = << >>
  /\ global_symbols = EmptyMap
  /\ iteration = 0
  /\ sizes_changed = FALSE
  /\ errors = 0
  /\ link_errors = 0
  /\ link_result = "none"
  /\ result = "none"
  /\ endianness = "unread"
  /\ memory_image = EmptyMap
  /\ output = NoOutput
  /\ parsed_instruction = NoIns
  /\ found_definition = NotCalled
  /\ encoded_instruction = NotCalled
  /\ numeric_input \in NumericInputs
  /\ value_str = << >>
  /\ numeric_value = NotCalled

\* the integer is written in its form
RenderLiteral ==
  /\ pc = "numeric"
  /\ value_str = << >>
  /\ value_str' = Render(numeric_input.number, numeric_input.format, numeric_input.upper)
  /\ UNCHANGED << pipeline_vars, call_vars, force_32bit, no_implicit, numeric_input,
                  numeric_value >>

\* parse_numeric(value_str)
ParseNumeric ==
  /\ pc = "numeric"
  /\ value_str # << >>
  /\ numeric_value = NotCalled
  /\ numeric_value' = parse_numeric(value_str)
  /\ UNCHANGED << pipeline_vars, call_vars, force_32bit, no_implicit, numeric_input,
                  value_str >>

NumericNext ==
  \/ RenderLiteral
  \/ ParseNumeric

NumericSpec == NumericInit /\ [][NumericNext]_vars

\* ------------------------------------------------------------------------
\* Properties
\* ------------------------------------------------------------------------

\* the loop has just been left through its break
ExitedByConvergence == pc = "fix_labels" /\ loop_breaks(sizes_changed, iteration)

\* C1: when the convergence loop exits by convergence, running the loop a
\* second time on the object files it left changes nothing: every instruction
\* keeps its address, size and encoding, every label its address, and the
\* output emitted from the result is byte for byte the same.
C1_SecondRunChangesNothing ==
  ExitedByConvergence =>
    LET again == optimize_instruction_sizes(objs, force_32bit)
    IN /\ again = objs
       /\ \A output_format \in {"bin", "hex"}, little \in BOOLEAN :
            link_tail(again, force_32bit, output_format, little)
              = link_tail(objs, force_32bit, output_format, little)

\* C2: the convergence loop performs at most 10 iterations on every input
\* and then hands over to the next link phase: the iteration count never
\* exceeds 10, and once it is 10 the linker is no longer in the loop.
C2_AtMostTenIterations ==
  /\ iteration <= 10
  /\ pc = "optimize" => iteration < 10

\* the cap ended the loop: ten iterations, the last one still changing sizes
C2_CapReached == pc = "fix_labels" /\ iteration = 10 /\ sizes_changed

\* the link succeeded and wrote a binary file
BinaryEmitted ==
  pc = "done" /\ link_result = "success" /\ output.written /\ output.format = "bin"

\* instruction k + 1 of a file was placed by a .ORG line that left a gap
\* behind instruction k, in the layout the assembler produced
OrgGapBehind(lines, assembled, k) ==
  /\ assembled.instructions[k + 1].address
       > assembled.instructions[k].address + assembled.instructions[k].size
  /\ \E i \in 1..Len(lines) :
       /\ lines[i].kind = "org"
       /\ assembled.instruction_lines[k] < i
       /\ i < assembled.instruction_lines[k + 1]

OrgGapSize(assembled, k) ==
  assembled.instructions[k + 1].address
    - (assembled.instructions[k].address + assembled.instructions[k].size)

\* bytes some instruction record of the link claims
ClaimedByRecords ==
  LET instructions == all_instructions(objs)
  IN UNION { ClaimedBytes(instructions[k]) : k \in 1..Len(instructions) }

\* C3: a .ORG that leaves a gap of g bytes between the end of the preceding
\* instruction and the instruction it places shows in the emitted binary as
\* exactly g zero bytes at that position: the two instructions are still g
\* bytes apart, and every byte between them is zero.
C3_GapIsZeroPadding ==
  BinaryEmitted =>
    \A n \in 1..Len(objs) :
      LET assembled == assemble_file(sources[n], force_32bit, no_implicit).obj
          binary == binary_data(memory_image, output.min_addr, output.size)
          claimed == ClaimedByRecords
      IN \A k \in 1..(Len(objs[n].instructions) - 1) :
           OrgGapBehind(sources[n], assembled, k) =>
             LET gap_start == objs[n].instructions[k].address + objs[n].instructions[k].size
                 gap_end == objs[n].instructions[k + 1].address
             IN /\ gap_end - gap_start = OrgGapSize(assembled, k)
                /\ \A a \in gap_start..(gap_end - 1) :
                     a \notin claimed => binary[a - output.min_addr] = 0

\* some instruction of the file has the label name as an operand
References(lines, name) ==
  \E i \in 1..Len(lines) :
    /\ lines[i].kind = "ins"
    /\ \E j \in 1..Len(lines[i].ins.operands) :
         lines[i].ins.operands[j] = Lbl(name)

Defines(lines, name) ==
  \E i \in 1..Len(lines) : lines[i].kind \in {"ins", "label"} /\ lines[i].label = name

\* scenario S5: a defines foo at its first instruction and references bar,
\* b defines bar and references foo
ScenarioS5 ==
  /\ Len(sources) = 2
  /\ Len(sources[1]) > 0
  /\ sources[1][1].kind = "ins" /\ sources[1][1].label = "foo"
  /\ References(sources[1], "bar")
  /\ Defines(sources[2], "bar")
  /\ References(sources[2], "foo")

\* the instruction a label marks: the first one at or after the label's line
MarkedInstruction(obj, name) ==
  LET at_or_after == { k \in 1..Len(obj.instructions) :
                         obj.instruction_lines[k] >= obj.label_lines[name] }
  IN CHOOSE k \in at_or_after : \A j \in at_or_after : k <= j

LabelsAtMarkedInstructions ==
  \A n \in 1..Len(objs) : \A name \in DOMAIN objs[n].labels :
    (\E k \in 1..Len(objs[n].instructions) :
        objs[n].instruction_lines[k] >= objs[n].label_lines[name])
      => objs[n].labels[name] = objs[n].instructions[MarkedInstruction(objs[n], name)].address

\* every instruction carries the encoding of its text at its final address
\* against the final label addresses
EncodedAgainstFinalLabels ==
  \A n \in 1..Len(objs) : \A k \in 1..Len(objs[n].instructions) :
    LET inst == objs[n].instructions[k]
        encoded == encode_instruction(inst.source_text, inst.address,
                                      global_labels(objs), force_32bit, FALSE)
    IN encoded.ok /\ inst.opcode = encoded.binary_value

\* C4: in scenario S5 the link succeeds and emits one output in which both
\* references are encoded against the final addresses of foo and bar, and
\* the labels foo and bar hold the addresses of the instructions they mark.
C4_TwoObjectLink ==
  ScenarioS5 /\ pc = "done" /\ Len(objs) = 2 =>
    /\ link_result = "success"
    /\ result = "success"
    /\ output.written
    /\ LabelsAtMarkedInstructions
    /\ EncodedAgainstFinalLabels

\* instruction k of object n is a jump to a label of the same file that is
\* defined further down, the assembler gave it the 32-bit variant, and the
\* distance to the instruction the label marks is in reach of the 8-bit
\* displacement of the 16-bit variant (counted in half-words)
ForwardJumpInReach(n, assembled, k) ==
  LET inst == objs[n].instructions[k]
      target == inst.source_text.operands[1]
  IN /\ inst.source_text.mnemonic = "J"
     /\ target.kind = "label"
     /\ target.name \in DOMAIN objs[n].labels
     /\ objs[n].label_lines[target.name] > objs[n].instruction_lines[k]
     /\ \E j \in 1..Len(objs[n].instructions) :
          objs[n].instruction_lines[j] >= objs[n].label_lines[target.name]
     /\ assembled.instructions[k].size = 4
     /\ LET distance ==
              objs[n].instructions[MarkedInstruction(objs[n], target.name)].address
                - inst.address
        IN distance > 0 /\ distance <= 254

\* C5: in scenario S6 (a forward jump assembled as the 32-bit variant whose
\* displacement fits the 16-bit variant) the linked output holds the 16-bit
\* form of the jump, the instruction behind it lies 2 bytes lower, and labels
\* and operands follow the final addresses.
C5_ForwardJumpShrinks ==
  pc = "done" /\ link_result = "success" =>
    \A n \in 1..Len(objs) :
      LET assembled == assemble_file(sources[n], force_32bit, no_implicit).obj
      IN \A k \in 1..Len(objs[n].instructions) :
           ForwardJumpInReach(n, assembled, k) =>
             /\ objs[n].instructions[k].size = 2
             /\ objs[n].instructions[k].opcode.hi = 0
             /\ objs[n].instructions[k].opcode.lo % 256 = InstructionTable[2].opcode
             /\ (k < Len(objs[n].instructions)
                   /\ assembled.instructions[k + 1].address
                        = assembled.instructions[k].address + 4)
                  => objs[n].instructions[k + 1].address
                       = objs[n].instructions[k].address + 2
             /\ LabelsAtMarkedInstructions
             /\ EncodedAgainstFinalLabels

\* two records of the list claim a common byte
Overlapping(instructions) ==
  \E j, k \in 1..Len(instructions) :
    /\ j < k
    /\ instructions[j].address < instructions[k].address + instructions[k].size
    /\ instructions[k].address < instructions[j].address + instructions[j].size

\* all files were assembled and handed to the linker
Linked == pc = "done" /\ Len(objs) = Len(sources)

UndefinedNames ==
  { name \in {"foo", "bar", "qux"} :
      /\ \E n \in 1..Len(sources) : References(sources[n], name)
      /\ \A n \in 1..Len(sources) : ~Defines(sources[n], name) }

\* C7: if an instruction of a linked object references a name no object
\* defines, linking fails, with a diagnostic for every such name.
C7_UndefinedNameFailsTheLink ==
  Linked /\ UndefinedNames # {} =>
    link_result = "failure" /\ link_errors >= Cardinality(UndefinedNames)

\* C8: a phase that produced an error-level diagnostic returns failure and
\* the pipeline stops: the link never returns success after an error or
\* abort diagnostic logged during it.
C8_ErrorFailsThePhase ==
  pc = "done" /\ link_errors > 0 => link_result = "failure" /\ result = "failure"

\* byte i (from 0) of the serialization of an instruction's encoded word of
\* size bytes: least significant byte first in little-endian mode, most
\* significant byte first in big-endian mode
SerializedByte(inst, i, little) ==
  WordByte(inst.opcode, IF little THEN i ELSE inst.size - 1 - i)

\* C9: the size bytes stored at an instruction's address in the memory image
\* are the serialization of its encoded word in the configured endianness.
C9_BytesInConfiguredEndianness ==
  pc = "done" /\ link_result = "success" /\ output.written =>
    \A n \in 1..Len(objs) : \A k \in 1..Len(objs[n].instructions) :
      LET inst == objs[n].instructions[k]
      IN \A i \in 0..(inst.size - 1) :
           /\ inst.address + i \in DOMAIN memory_image
           /\ memory_image[inst.address + i]
                = SerializedByte(inst, i, endianness = "little")

\* a HEX file was emitted
HexEmitted == pc = "done" /\ output.written /\ output.format = "hex"

\* number of data bytes in the data records before record r
RECURSIVE DataBytesBefore(_, _)
DataBytesBefore(records, r) ==
  IF r <= 1 THEN 0
  ELSE DataBytesBefore(records, r - 1)
         + (IF records[r - 1].type = 0 THEN Len(records[r - 1].data) ELSE 0)

\* the j-th lowest address of the memory image
NthAddress(memory, j) ==
  CHOOSE a \in DOMAIN memory : Cardinality({ b \in DOMAIN memory : b < a }) = j - 1

\* C10: in an emitted HEX file every data record is preceded by a type-04
\* record, and the most recent one carries the high 16 bits of the address
\* of every byte of the data record; the record's 16-bit address plus the
\* byte's position is the low half of that byte's address, so no data record
\* spans a 64 KiB boundary; the data records hold the memory image in
\* address order.
C10_ExtendedAddressBeforeData ==
  HexEmitted =>
    LET records == output.records
    IN /\ DataBytesBefore(records, Len(records) + 1) = Cardinality(DOMAIN memory_image)
       /\ \A r \in 1..Len(records) :
            records[r].type = 0 =>
              /\ \E q \in 1..(r - 1) : records[q].type = 4
              /\ LET earlier == { q \in 1..(r - 1) : records[q].type = 4 }
                     q == CHOOSE x \in earlier : \A y \in earlier : y <= x
                     upper == records[q].data[1] * 256 + records[q].data[2]
                 IN \A i \in 1..Len(records[r].data) :
                      LET a == NthAddress(memory_image, DataBytesBefore(records, r) + i)
                      IN /\ upper = (32768 + a \div 65536) % 65536
                         /\ records[r].address + (i - 1) = a % 65536
                         /\ records[r].data[i] = memory_image[a]

\* a HEX file whose data lies on both sides of a 64 KiB boundary
C10_BoundaryCrossed ==
  /\ HexEmitted
  /\ \E q, r \in 1..Len(output.records) :
       /\ output.records[q].type = 4 /\ output.records[r].type = 4
       /\ output.records[q].data # output.records[r].data

\* the bytes of a record as the file spells them: byte count, address high
\* and low, record type, data, checksum
RecordByteSum(record) ==
  Len(record.data) + (record.address \div 256) + (record.address % 256)
    + record.type + SumSeq(record.data, 1) + record.checksum

\* C11: in every emitted HEX file the bytes of every record (data, extended
\* linear address, end of file), checksum byte included, sum to 0 modulo
\* 256, and every one of them is a byte.
C11_RecordBytesSumToZero ==
  HexEmitted =>
    \A r \in 1..Len(output.records) :
      /\ RecordByteSum(output.records[r]) % 256 = 0
      /\ output.records[r].checksum \in 0..255
      /\ output.records[r].address \in 0..65535
      /\ Len(output.records[r].data) \in 0..255
      /\ \A i \in 1..Len(output.records[r].data) : output.records[r].data[i] \in 0..255

\* a HEX file with all three kinds of record, one of the data records at a
\* 16-bit address other than 0
C11_AllRecordKinds ==
  /\ HexEmitted
  /\ \E r \in 1..Len(output.records) :
       output.records[r].type = 0 /\ output.records[r].address # 0
  /\ \E r \in 1..Len(output.records) : output.records[r].type = 4
  /\ output.records[Len(output.records)].type = 1

\* scenario S7: one source file whose only instruction is 4 bytes long and
\* lies at the base address 0x80000000, written as a HEX file
ScenarioS7 ==
  /\ HexEmitted
  /\ Len(objs) = 1
  /\ Len(objs[1].instructions) = 1
  /\ objs[1].instructions[1].address = 0
  /\ objs[1].instructions[1].size = 4

\* the file begins with ":02000004" 80 00 and the given checksum byte, and a
\* data record at offset 0x0000 follows
BeginsWithExtendedAddress8000(checksum) ==
  /\ Len(output.records) >= 2
  /\ output.records[1] = [type |-> 4, address |-> 0, data |-> << 128, 0 >>,
                          checksum |-> checksum]
  /\ output.records[2].type = 0
  /\ output.records[2].address = 0

\* C12 as stated: in scenario S7 the HEX file begins with the record
\* :02000004800078 followed by a data record at offset 0x0000.
C12_BeginsWith02000004800078 == ScenarioS7 => BeginsWithExtendedAddress8000(120)

\* C12 amended: in scenario S7 the HEX file begins with the record
\* :0200000480007A (Extended Linear Address = 0x8000, checksum 0x7A) followed
\* by a data record at offset 0x0000.
C12_BeginsWith0200000480007A == ScenarioS7 => BeginsWithExtendedAddress8000(122)

\* scenario S7 has happened and the data record holds the four bytes
C12_ScenarioS7Linked ==
  /\ ScenarioS7
  /\ Len(output.records) = 3
  /\ Len(output.records[2].data) = 4

\* the loader has answered a direct call
Found == found_definition # NotCalled

\* the encoder has answered a direct call
Encoded == encoded_instruction # NotCalled

\* the row takes the operands: every register operand meets a generic
\* register slot of its class, every other operand is a number whose scaled
\* value fits the width of an immediate slot, as signed or as unsigned
SlotsHoldGenerically(variant, operands) ==
  /\ variant.operand_count = Len(operands)
  /\ Len(variant.pattern) = Len(operands)
  /\ \A i \in 1..Len(operands) :
       IF operands[i].kind = "reg"
       THEN variant.pattern[i].reg = operands[i].rtype /\ variant.pattern[i].specific = -1
       ELSE /\ operands[i].kind = "num"
            /\ variant.pattern[i].reg = ""
            /\ FitsField(operands[i].num \div variant.pattern[i].scale,
                         variant.pattern[i].width)

\* rows of the given size of the instruction's mnemonic that take its operands
FittingRows(ins, opcode_size) ==
  { r \in 1..Len(InstructionTable) :
      /\ InstructionTable[r].instruction = ins.mnemonic
      /\ InstructionTable[r].opcode_size = opcode_size
      /\ SlotsHoldGenerically(InstructionTable[r], ins.operands) }

\* C13: if the operand values fit the slots of both a 16-bit and a 32-bit
\* variant of the mnemonic, all register slots are generic and no operand is
\* a forward-reference placeholder, the selector returns the 16-bit variant.
C13_ReturnsThe16BitVariant ==
  (Found /\ ~force_32bit
     /\ FittingRows(parsed_instruction, 16) # {}
     /\ FittingRows(parsed_instruction, 32) # {})
    => (found_definition # None /\ found_definition.opcode_size = 16)

\* the object files are as the assembler wrote them
FreshlyAssembled == pc \in {"assemble", "link"}

\* instruction k of object n names a label whose address the first pass does
\* not know when it reaches the instruction: a label a later line of the
\* file defines, or one the file does not define
ForwardReference(n, k) ==
  \E j \in 1..Len(objs[n].instructions[k].source_text.operands) :
    LET op == objs[n].instructions[k].source_text.operands[j]
    IN /\ op.kind = "label"
       /\ op.name \in DOMAIN objs[n].labels
            => objs[n].label_lines[op.name] > objs[n].instruction_lines[k]

\* opcode sizes of the rows of the table for a mnemonic and an operand count
VariantSizes(ins) ==
  { InstructionTable[r].opcode_size : r \in { q \in 1..Len(InstructionTable) :
      /\ InstructionTable[q].instruction = ins.mnemonic
      /\ InstructionTable[q].operand_count = Len(ins.operands) } }

\* C14: an instruction with an operand that is a forward label reference is
\* assembled with the variant of the largest opcode_size (the 32-bit variant
\* when there is a 16-bit and a 32-bit one), and the size the first pass
\* reserved for it does not have to grow: it is not less than the size of the
\* encoding the second pass emits.
C14_ForwardReferenceTakesLargest ==
  FreshlyAssembled =>
    \A n \in 1..Len(objs) : \A k \in 1..Len(objs[n].instructions) :
      ForwardReference(n, k) =>
        /\ objs[n].instructions[k].size * 8
             = SetMax(VariantSizes(objs[n].instructions[k].source_text))
        /\ calculate_instruction_size(objs[n].instructions[k].source_text,
                                      force_32bit, no_implicit)
             >= objs[n].instructions[k].size

\* rows of the mnemonic with the operand count of the instruction that the
\* options of the loader leave in the table
AvailableRows(ins) ==
  { r \in 1..Len(InstructionTable) :
      /\ InstructionTable[r].instruction = ins.mnemonic
      /\ InstructionTable[r].operand_count = Len(ins.operands)
      /\ force_32bit => InstructionTable[r].opcode_size >= 32
      /\ no_implicit =>
           \A i \in 1..Len(InstructionTable[r].pattern) :
             ~(InstructionTable[r].pattern[i].reg = "A"
                 /\ InstructionTable[r].pattern[i].specific \in {10, 15}) }

\* operand i of the instruction is a data register, and the mnemonic has a
\* row with D[15] and a row with a generic D[a] in slot i
SpecificAndGenericD(ins, i) ==
  /\ ins.operands[i].kind = "reg" /\ ins.operands[i].rtype = "D"
  /\ \E r \in AvailableRows(ins) :
       /\ i <= Len(InstructionTable[r].pattern)
       /\ InstructionTable[r].pattern[i] = SynReg("D", 15)
  /\ \E r \in AvailableRows(ins) :
       /\ i <= Len(InstructionTable[r].pattern)
       /\ InstructionTable[r].pattern[i] = SynReg("D", -1)

\* the row chosen has D[15] in slot i for the operand D15 and the generic
\* D[a] for any other data register
RowFollowsRegister(row, ins, i) ==
  /\ row # None
  /\ i <= Len(row.pattern)
  /\ row.pattern[i] = IF ins.operands[i].num = 15 THEN SynReg("D", 15) ELSE SynReg("D", -1)

C16_Only32BitWhenForced ==
  force_32bit =>
    \A n \in 1..Len(objs) : \A k \in 1..Len(objs[n].instructions) :
      objs[n].instructions[k].size * 8 = 32

\* the instruction carries the encoding of the given row of the table: the
\* row's size, and the row's opcode in the low byte of the word (every
\* operand slot of the table lies above bit 7)
EncodedWithRow(inst, row) ==
  /\ row.instruction = inst.source_text.mnemonic
  /\ inst.size * 8 = row.opcode_size
  /\ inst.opcode.lo % 256 = row.opcode

\* the syntax of the row names the fixed register A[10] or A[15]
NamesImplicitRegister(row) ==
  \E i \in 1..Len(row.pattern) : row.pattern[i] \in {SynReg("A", 10), SynReg("A", 15)}

\* C17: with no_implicit enabled no instruction of the assembled object and
\* none of the final linked output is encoded with a row whose syntax
\* references A[10] or A[15].
C17_NoImplicitRowWhenDisabled ==
  (no_implicit /\ (FreshlyAssembled \/ pc = "done")) =>
    \A n \in 1..Len(objs) : \A k \in 1..Len(objs[n].instructions) :
      \A r \in 1..Len(InstructionTable) :
        NamesImplicitRegister(InstructionTable[r])
          => ~EncodedWithRow(objs[n].instructions[k], InstructionTable[r])

\* ------------------------------------------------------------------------
\* Split-field encoding (C18)
\* ------------------------------------------------------------------------

\* bits [pos, pos + len) of an encoded word, for len <= 16
WordSlot(w, info) ==
  IF info[1] >= 16
  THEN MaskBits(ShiftRight(w.hi, info[1] - 16), info[2])
  ELSE MaskBits(ShiftRight(w.lo, info[1])
                  + (w.hi % (2 ^ info[2])) * (2 ^ (16 - info[1])), info[2])

\* the operand value read back from the destination slots, window by window
RECURSIVE ReadBackFrom(_, _, _)
ReadBackFrom(def, w, k) ==
  IF k > Len(def.split) THEN 0
  ELSE WordSlot(w, get_operand_info(def, def.split_pos + k - 1)) * (2 ^ def.split[k][2])
         + ReadBackFrom(def, w, k + 1)

\* the value of the split operand of a direct call, scaled as its syntax says
SplitOperandValue(ins, def) ==
  ins.operands[def.split_pos].num \div def.pattern[def.split_pos].scale

\* bit b of the word lies in no destination slot of the row
OutsideSlots(def, b) ==
  \A n \in 1..Len(def.ops) : b < def.ops[n][1] \/ b >= def.ops[n][1] + def.ops[n][2]

\* the selector has answered a direct call with a split-field row, the
\* encoder has answered the same call, and the operand is a number that fits
\* the summed widths of the windows
SplitCall ==
  /\ Found /\ Encoded
  /\ found_definition # None
  /\ Len(found_definition.split) > 0
  /\ parsed_instruction.operands[found_definition.split_pos].kind = "num"
  /\ SplitOperandValue(parsed_instruction, found_definition) >= 0
  /\ SplitOperandValue(parsed_instruction, found_definition)
        <= (2 ^ TotalBits(found_definition.split, 1)) - 1

NumericParsed == pc = "numeric" /\ value_str # << >> /\ numeric_value # NotCalled

\* C19: an integer n with -2^31 <= n < 2^31 written in any of the supported
\* forms (0x, 0h, trailing h, $0, 0b, 0y, trailing b, trailing y, 0o, 0q,
\* trailing o, trailing q, 0d, trailing d, plain decimal) and parsed back
\* gives n.
C19_RenderParseRoundTrip ==
  NumericParsed => (numeric_value.ok /\ numeric_value.value = numeric_input.number)

\* ------------------------------------------------------------------------
\* Final re-encoding (C20)
\* ------------------------------------------------------------------------

\* the final re-encoding phase is over
FinalReencodingDone == pc \in {"output", "done"}

\* the table rows an encoded word of the mnemonic can come from: the opcode
\* byte of the word is the row's
RowsOfWord(inst) ==
  { r \in 1..Len(InstructionTable) :
      /\ InstructionTable[r].instruction = inst.source_text.mnemonic
      /\ InstructionTable[r].opcode = WordByte(inst.opcode, 0) }

\* operand i as the word holds it in the slots of the row
HeldOperand(row, w, i) ==
  IF Len(row.split) > 0 /\ row.split_pos = i
  THEN ReadBackFrom(row, w, 1)
  ELSE WordSlot(w, get_operand_info(row, i))

\* the displacement from address to target as the slots of operand i of the
\* row hold it: scaled per the slot and cut to its width
ScaledDisplacement(row, i, target, address) ==
  MaskBits((target - address) \div row.pattern[i].scale,
           IF Len(row.split) > 0 /\ row.split_pos = i
           THEN TotalBits(row.split, 1)
           ELSE get_operand_info(row, i)[2])

\* the object file that defines the label and has an instruction at or after
\* the label's line
DefiningObjects(name) ==
  { m \in 1..Len(objs) :
      /\ name \in DOMAIN objs[m].labels
      /\ \E k \in 1..Len(objs[m].instructions) :
           objs[m].instruction_lines[k] >= objs[m].label_lines[name] }

\* the final address of the instruction the label marks
FinalAddressOf(m, name) ==
  objs[m].instructions[MarkedInstruction(objs[m], name)].address

\* operand i of instruction k of object n names a label that marks an
\* instruction
NamesLabel(n, k, i) ==
  /\ objs[n].instructions[k].source_text.operands[i].kind = "label"
  /\ DefiningObjects(objs[n].instructions[k].source_text.operands[i].name) # {}

\* C20: after the final re-encoding phase every instruction operand that
\* names a label is encoded as the displacement from the final address of the
\* instruction to the final address of the label, scaled per its slot; no
\* instruction keeps a displacement of an earlier layout.
C20_DisplacementsFromFinalAddresses ==
  FinalReencodingDone =>
    \A n \in 1..Len(objs) : \A k \in 1..Len(objs[n].instructions) :
      \A i \in 1..Len(objs[n].instructions[k].source_text.operands) :
        NamesLabel(n, k, i) =>
          \A m \in DefiningObjects(objs[n].instructions[k].source_text.operands[i].name) :
            /\ RowsOfWord(objs[n].instructions[k]) # {}
            /\ \A r \in RowsOfWord(objs[n].instructions[k]) :
                 HeldOperand(InstructionTable[r], objs[n].instructions[k].opcode, i)
                   = ScaledDisplacement(InstructionTable[r], i,
                       FinalAddressOf(m, objs[n].instructions[k].source_text.operands[i].name),
                       objs[n].instructions[k].address)

\* ------------------------------------------------------------------------
\* Label addresses after linking (C21, C28)
\* ------------------------------------------------------------------------

\* the link has ended with an output
LinkedWithOutput == pc = "done" /\ link_result = "success"

\* C21: after linking every label that has an instruction at or after its
\* line holds the final address of the first such instruction of its object,
\* whatever sizes the convergence loop changed.
C21_LabelsFollowTheirInstructions ==
  LinkedWithOutput => LabelsAtMarkedInstructions

\* instruction k of the object stands on the line that defines the label
OnTheLineOf(obj, name, k) == obj.instruction_lines[k] = obj.label_lines[name]

\* C28: after linking a label defined on the line of an instruction
\* (name: instr) holds the final address of that instruction, not the address
\* of a later one.
C28_SameLineLabelAtItsInstruction ==
  LinkedWithOutput =>
    \A n \in 1..Len(objs) : \A name \in DOMAIN objs[n].labels :
      \A k \in 1..Len(objs[n].instructions) :
        OnTheLineOf(objs[n], name, k)
          => objs[n].labels[name] = objs[n].instructions[k].address

\* ------------------------------------------------------------------------
\* The two passes of the assembler (C22, C29)
\* ------------------------------------------------------------------------

\* the address the first pass has reached in front of line i
PassOneAddress(lines, i) ==
  first_pass(SubSeq(lines, 1, i - 1), force_32bit, no_implicit).address

\* C22: in every object file the assembler writes, the size by which pass 1
\* advanced the address for an instruction is the size of what pass 2 emitted
\* for it, and every label holds the pass-2 address of the first instruction
\* at or after the label.
C22_PassOneSizesArePassTwoSizes ==
  FreshlyAssembled =>
    \A n \in 1..Len(objs) :
      /\ \A k \in 1..Len(objs[n].instructions) :
           calculate_instruction_size(objs[n].instructions[k].source_text,
                                      force_32bit, no_implicit)
             = objs[n].instructions[k].size
      /\ \A name \in DOMAIN objs[n].labels :
           (\E k \in 1..Len(objs[n].instructions) :
               objs[n].instruction_lines[k] >= objs[n].label_lines[name])
             => objs[n].labels[name]
                  = objs[n].instructions[MarkedInstruction(objs[n], name)].address

\* C29: pass 2 starts at the address at which pass 1 started, also when the
\* source holds .ORG directives: the first instruction pass 2 emits has the
\* address pass 1 gave to its line.
C29_PassTwoStartsWherePassOneStarted ==
  FreshlyAssembled =>
    \A n \in 1..Len(objs) :
      Len(objs[n].instructions) > 0 =>
        objs[n].instructions[1].address
          = PassOneAddress(sources[n], objs[n].instruction_lines[1])

\* ------------------------------------------------------------------------
\* Instructions placed by .ORG (C23)
\* ------------------------------------------------------------------------

\* line j of the file is the .ORG that places the instruction of line i:
\* only labels stand between the two lines
PlacedBy(lines, j, i) ==
  /\ j < i
  /\ lines[j].kind = "org"
  /\ \A m \in (j + 1)..(i - 1) : lines[m].kind = "label"

\* every file opens with an .ORG line, so that the second pass of the
\* assembler starts at an address the source names
OpensWithOrg ==
  \A n \in 1..Len(sources) : Len(sources[n]) > 0 /\ sources[n][1].kind = "org"

\* C23: an instruction the source places at the absolute address X with
\* .ORG X is at X in the linked output, also when the convergence loop changed
\* the size of instructions in front of the .ORG.  Stated for files that open
\* with an .ORG line.
C23_OrgAddressKept ==
  (LinkedWithOutput /\ OpensWithOrg) =>
    \A n \in 1..Len(objs) : \A k \in 1..Len(objs[n].instructions) :
      \A j \in 1..Len(sources[n]) :
        PlacedBy(sources[n], j, objs[n].instruction_lines[k])
          => objs[n].instructions[k].address = sources[n][j].org

\* ------------------------------------------------------------------------
\* The exit of the convergence loop (C24)
\* ------------------------------------------------------------------------

\* the pass that has just run is pass number i >= 2 and changed no size
StablePass(changed, i) == ~changed /\ i >= 2

\* one step of the loop: it runs one more pass; after a stable pass the loop
\* is left, after any other pass it goes on unless the cap is reached
LoopStep ==
  pc = "optimize" =>
    /\ iteration' = iteration + 1
    /\ IF StablePass(sizes_changed', iteration') THEN pc' = "fix_labels"
       ELSE IF iteration' < max_iterations THEN pc' = "optimize"
       ELSE pc' = "fix_labels"

\* C24: the convergence loop exits by convergence exactly at the first
\* iteration i >= 2 in which no instruction's chosen size changed: while the
\* loop runs, every pass from the second on has changed a size; a first pass
\* without a change does not end the loop, and no pass follows a stable one.
C24_ExitsAtFirstStablePass ==
  /\ [](pc = "optimize" /\ iteration >= 2 => sizes_changed)
  /\ [][LoopStep]_vars

\* the loop went on after a second pass that changed a size and left at the
\* third, which changed none
C24_ConvergedAtThirdPass == pc = "fix_labels" /\ ~sizes_changed /\ iteration = 3

\* ------------------------------------------------------------------------
\* Record sizes after the final re-encoding (C25)
\* ------------------------------------------------------------------------

\* C25: after the final re-encoding pass the size in bytes of every
\* instruction record is opcode_size / 8 of the variant whose encoding the
\* record holds.
C25_SizeOfTheStoredEncoding ==
  FinalReencodingDone =>
    \A n \in 1..Len(objs) : \A k \in 1..Len(objs[n].instructions) :
      \A r \in RowsOfWord(objs[n].instructions[k]) :
        objs[n].instructions[k].size * 8 = InstructionTable[r].opcode_size

\* ------------------------------------------------------------------------
\* Bytes written per instruction (C26)
\* ------------------------------------------------------------------------

\* the bytes a .. a+s-1 of an instruction of size s at address a
OwnBytes(inst) == inst.address..(inst.address + inst.size - 1)

\* C26: emitting an instruction of size s at address a writes exactly the
\* memory-image bytes a .. a+s-1: the image holds the bytes of the
\* instructions and no byte that belongs to none of them.
C26_ImageHoldsOwnBytesOnly ==
  (LinkedWithOutput /\ output.written) =>
    DOMAIN memory_image
      = UNION { UNION { OwnBytes(objs[n].instructions[k]) :
                          k \in 1..Len(objs[n].instructions) } :
                  n \in 1..Len(objs) }

\* ------------------------------------------------------------------------
\* Operands out of range (C27)
\* ------------------------------------------------------------------------

\* bit width that takes operand i of the row: the summed widths of the
\* windows for the split operand, the width of the slot otherwise
SlotWidth(row, i) ==
  IF Len(row.split) > 0 /\ row.split_pos = i
  THEN TotalBits(row.split, 1)
  ELSE get_operand_info(row, i)[2]

\* the value of numeric operand i, scaled as the row asks: /2 or /4 of the
\* syntax, /4 for the offset of a word-aligned mnemonic
ScaledOperand(ins, row, i) == ins.operands[i].num \div range_scale(row, i)

\* the value is in the signed or in the unsigned range of width bits
InSignedOrUnsignedRange(value, width) ==
  -(2 ^ (width - 1)) <= value /\ value <= (2 ^ width) - 1

\* numeric operand i of the call went into a slot of the row encoded
NumericSlot(ins, row, i) ==
  /\ i <= Len(row.pattern)
  /\ ins.operands[i].kind = "num"
  /\ SlotWidth(row, i) > 0

\* C27: encoding fails whenever the scaled value of an operand fits neither
\* the signed nor the unsigned range of its slot's width (for a split operand
\* of the summed window widths): a word is returned only when every numeric
\* operand is in range.
C27_OutOfRangeFailsTheEncoding ==
  (Encoded /\ encoded_instruction.ok) =>
    \A i \in 1..Len(parsed_instruction.operands) :
      NumericSlot(parsed_instruction, encoded_instruction.definition, i) =>
        InSignedOrUnsignedRange(
          ScaledOperand(parsed_instruction, encoded_instruction.definition, i),
          SlotWidth(encoded_instruction.definition, i))

\* ------------------------------------------------------------------------
\* One scaled value for selection and encoding (C30)
\* ------------------------------------------------------------------------

\* the value of numeric operand i that the selector checks against the
\* width of the row's slot
RangeCheckedValue(ins, row, i) == ins.operands[i].num \div range_scale(row, i)

\* C30: for every immediate or offset slot the value the selector
\* range-checks and the value the encoder writes into the slot are the same
\* scaled value: the slots of an encoded word hold, cut to their width, the
\* operand divided as the selector divides it, for a split operand as well.
C30_EncodedValueIsTheCheckedValue ==
  (Encoded /\ encoded_instruction.ok) =>
    \A i \in 1..Len(parsed_instruction.operands) :
      NumericSlot(parsed_instruction, encoded_instruction.definition, i) =>
        HeldOperand(encoded_instruction.definition, encoded_instruction.binary_value, i)
          = MaskBits(RangeCheckedValue(parsed_instruction, encoded_instruction.definition, i),
                     SlotWidth(encoded_instruction.definition, i))

====
